---- MODULE Spec2Model ----
(***************************************************************************)
(* A model of the grocery price optimizer (src/optimizer/price_optimizer.py)*)
(* and of the helpers it calls.                                            *)
(*                                                                         *)
(* Conventions                                                             *)
(*   - a Python str is a sequence of one-character strings, so that strip, *)
(*     substring tests, concatenation and lexicographic sorting can be     *)
(*     computed;                                                           *)
(*   - Optional[T] is a sequence of length 0 (None) or 1 (the value);      *)
(*   - a float price is the integer number of tenths it denotes;           *)
(*   - a dict (insertion ordered) is a sequence of [key, val] records;     *)
(*   - a loop is a recursive operator over the loop index; the value a     *)
(*     loop carries from one iteration to the next is bound by             *)
(*     CHOOSE r \in {F(x) : x \in {e}} : TRUE, which evaluates e once.     *)
(***************************************************************************)
EXTENDS Integers, Sequences, FiniteSets, TLC

\* ------------------------------------------------------------------------
\* Bounds of the model
\* ------------------------------------------------------------------------
\* longest grocery list read from the grocery file
MaxItems == 2

\* the number of times run() is called on one PriceOptimizer
MaxRuns == 2

\* the number of rows of a scraper response handed to the normalizer alone
MaxRows == 2

\* ------------------------------------------------------------------------
\* Python values
\* ------------------------------------------------------------------------
None == <<>>

Some(x) == <<x>>

IsNone(o) == o = <<>>

Val(o) == o[1]

\* ord(c) of the characters the model uses
CodePoint(c) ==
    CASE c = " " -> 32 [] c = "*" -> 42 [] c = "," -> 44 [] c = "-" -> 45
      [] c = "." -> 46 [] c = "0" -> 48 [] c = "1" -> 49 [] c = "2" -> 50
      [] c = "3" -> 51 [] c = "4" -> 52 [] c = "5" -> 53 [] c = "6" -> 54
      [] c = "7" -> 55 [] c = "8" -> 56 [] c = "9" -> 57
      [] c = "A" -> 65 [] c = "B" -> 66 [] c = "C" -> 67 [] c = "D" -> 68
      [] c = "E" -> 69 [] c = "S" -> 83 [] c = "b" -> 98 [] c = "e" -> 101
      [] c = "m" -> 109 [] c = "x" -> 120

\* s < t for two str values (Python compares code points, then lengths)
RECURSIVE StrLess(_, _)
StrLess(s, t) ==
    IF t = <<>> THEN FALSE
    ELSE IF s = <<>> THEN TRUE
    ELSE IF CodePoint(Head(s)) < CodePoint(Head(t)) THEN TRUE
    ELSE IF CodePoint(Head(s)) > CodePoint(Head(t)) THEN FALSE
    ELSE StrLess(Tail(s), Tail(t))

\* str.lstrip()
RECURSIVE LStrip(_)
LStrip(s) ==
    IF s # <<>> /\ Head(s) = " " THEN LStrip(Tail(s)) ELSE s

\* str.rstrip()
RECURSIVE RStripTo(_, _)
RStripTo(s, n) ==
    IF n > 0 /\ s[n] = " " THEN RStripTo(s, n - 1) ELSE SubSeq(s, 1, n)

RStrip(s) == RStripTo(s, Len(s))

\* str.strip()
Strip(s) == RStrip(LStrip(s))

\* sub in s
IsSubstring(sub, s) ==
    \E i \in 1..(Len(s) - Len(sub) + 1) : SubSeq(s, i, i + Len(sub) - 1) = sub

\* sorted(set_of_str): the ascending sequence of a finite set of str values
RECURSIVE SortedStrs(_)
SortedStrs(S) ==
    IF S = {} THEN <<>>
    ELSE CHOOSE r \in {<<m>> \o SortedStrs(S \ {m}) :
                         m \in {CHOOSE x \in S : \A y \in S \ {x} : StrLess(x, y)}} :
             TRUE

\* ------------------------------------------------------------------------
\* utils/parser.py
\* ------------------------------------------------------------------------
DigitChars == {"0", "1", "2", "3", "4", "5", "6", "7", "8", "9"}

DigitValue(c) == CodePoint(c) - 48

\* re.sub(r"[^\d.,]", "", price_str).replace(",", ".")
RECURSIVE CleanPrice(_)
CleanPrice(s) ==
    IF s = <<>> THEN <<>>
    ELSE LET c == Head(s) IN
         IF c \in DigitChars THEN <<c>> \o CleanPrice(Tail(s))
         ELSE IF c \in {".", ","} THEN <<".">> \o CleanPrice(Tail(s))
         ELSE CleanPrice(Tail(s))

\* the integer a run of digits denotes
RECURSIVE DigitsToNatTo(_, _)
DigitsToNatTo(ds, n) ==
    IF n = 0 THEN 0 ELSE 10 * DigitsToNatTo(ds, n - 1) + DigitValue(ds[n])

DigitsToNat(ds) == DigitsToNatTo(ds, Len(ds))

\* float(clean), in tenths: digits with at most one "." and at least one
\* digit; anything else raises ValueError (None).  The price texts of the
\* model carry at most one fractional digit.
FloatOf(clean) ==
    LET dots == {i \in 1..Len(clean) : clean[i] = "."} IN
    IF Cardinality(dots) > 1 \/ Len(clean) = Cardinality(dots) THEN None
    ELSE IF dots = {} THEN Some(10 * DigitsToNat(clean))
    ELSE LET d == CHOOSE i \in dots : TRUE
             whole == SubSeq(clean, 1, d - 1)
             frac == SubSeq(clean, d + 1, Len(clean))
         IN  Some(10 * DigitsToNat(whole)
                  + (IF frac = <<>> THEN 0 ELSE DigitValue(frac[1])))

\* parse_price(price_str)
parse_price(price_str) ==
    IF price_str = <<>> THEN None ELSE FloatOf(CleanPrice(price_str))

\* ------------------------------------------------------------------------
\* optimizer/price_optimizer.py: data
\* ------------------------------------------------------------------------
\* class StoreOption(NamedTuple)
StoreOption(name, location, price_value, price_str) ==
    [name |-> name, location |-> location,
     price_value |-> price_value, price_str |-> price_str]

\* the separator of f"{label} - {loc}"
LabelSep == <<" ", "-", " ">>

\* PriceOptimizer._store_label
_store_label(store_name, location) ==
    LET label == Strip(store_name) IN
    IF IsNone(location) \/ Val(location) = <<>> THEN label
    ELSE LET loc == Strip(Val(location)) IN
         IF loc # <<>> /\ ~IsSubstring(loc, label)
         THEN label \o LabelSep \o loc
         ELSE label

\* the label of a StoreOption, as every call site computes it
OptionLabel(option) == _store_label(option.name, option.location)

\* key in d, for a dict d
HasKey(d, k) == \E i \in 1..Len(d) : d[i].key = k

\* d[k], for a key of d
Lookup(d, k) == d[CHOOSE i \in 1..Len(d) : d[i].key = k].val

\* list(d.keys())
Keys(d) == [i \in 1..Len(d) |-> d[i].key]

\* defaultdict(list): d[k].append(entry); a new key goes last
DictAppend(d, k, entry) ==
    IF HasKey(d, k)
    THEN [i \in 1..Len(d) |->
            IF d[i].key = k
            THEN [key |-> k, val |-> Append(d[i].val, entry)]
            ELSE d[i]]
    ELSE Append(d, [key |-> k, val |-> <<entry>>])

\* d[k] = v; an existing key keeps its position
DictSet(d, k, v) ==
    IF HasKey(d, k)
    THEN [i \in 1..Len(d) |-> IF d[i].key = k THEN [key |-> k, val |-> v] ELSE d[i]]
    ELSE Append(d, [key |-> k, val |-> v])

\* an AssignmentEntry (item_name, price_str, price_value)
AssignmentEntry(item_name, option) ==
    <<item_name, option.price_str, option.price_value>>

\* ------------------------------------------------------------------------
\* PriceOptimizer._assign_unlimited
\* ------------------------------------------------------------------------
\* a min() that keeps the last of several equally cheap offers
LastMinOption(store_prices) ==
    LET i == CHOOSE j \in 1..Len(store_prices) :
                 /\ \A k \in 1..Len(store_prices) :
                        store_prices[j].price_value <= store_prices[k].price_value
                 /\ \A k \in (j + 1)..Len(store_prices) :
                        store_prices[k].price_value > store_prices[j].price_value
    IN  store_prices[i]

\* min(store_prices, key=price_value): the first offer with the lowest price
MinOption(store_prices) ==
    LET i == CHOOSE j \in 1..Len(store_prices) :
                 /\ \A k \in 1..Len(store_prices) :
                        store_prices[j].price_value <= store_prices[k].price_value
                 /\ \A k \in 1..(j - 1) :
                        store_prices[k].price_value > store_prices[j].price_value
    IN  store_prices[i]


\* a loop body that overwrites the store's list instead of appending to it
UnlimitedStepOverwrite(acc, item) ==
    IF item[2] = <<>> THEN acc
    ELSE [assignments |->
              DictSet(acc.assignments, OptionLabel(MinOption(item[2])),
                      <<AssignmentEntry(item[1], MinOption(item[2]))>>),
          total_cost |-> acc.total_cost + MinOption(item[2]).price_value]

\* the body of the loop of _assign_unlimited for one (item_name, store_prices)
UnlimitedStep(acc, item) ==
    IF item[2] = <<>> THEN acc
    ELSE [assignments |->
              DictAppend(acc.assignments, OptionLabel(MinOption(item[2])),
                         AssignmentEntry(item[1], MinOption(item[2]))),
          total_cost |-> acc.total_cost + MinOption(item[2]).price_value]

\* the loop of _assign_unlimited from item k on
RECURSIVE AssignUnlimitedFrom(_, _, _)
AssignUnlimitedFrom(item_options, k, acc) ==
    IF k > Len(item_options) THEN acc
    ELSE CHOOSE r \in {AssignUnlimitedFrom(item_options, k + 1, a) :
                         a \in {UnlimitedStep(acc, item_options[k])}} : TRUE

\* the pair (assignments, total_cost) it returns
_assign_unlimited(item_options) ==
    AssignUnlimitedFrom(item_options, 1, [assignments |-> <<>>, total_cost |-> 0])

\* ------------------------------------------------------------------------
\* PriceOptimizer._find_best_combination
\* ------------------------------------------------------------------------
\* a ceiling that lost three zeros
CombinationCeilingLow == 10 * 10

\* the ceiling on the number of store combinations examined
CombinationCeiling == 100000

\* math.comb(n, r)
RECURSIVE Comb(_, _)
Comb(n, r) ==
    IF r = 0 THEN 1
    ELSE IF r > n THEN 0
    ELSE (Comb(n - 1, r - 1) * n) \div r

\* sum(math.comb(n, r) for r in range(1, max_size + 1))
RECURSIVE CombinationCount(_, _)
CombinationCount(n, max_size) ==
    IF max_size < 1 THEN 0
    ELSE CombinationCount(n, max_size - 1) + Comb(n, max_size)

\* the labels in descending order
StoreLabelsDescending(item_options) ==
    CHOOSE r \in {[i \in 1..Len(up) |-> up[Len(up) + 1 - i]] :
                    up \in {SortedStrs(UNION {{OptionLabel(item_options[k][2][j]) :
                                                  j \in 1..Len(item_options[k][2])} :
                                              k \in 1..Len(item_options)})}} : TRUE

\* sorted({label of every option of every item})
StoreLabels(item_options) ==
    SortedStrs(UNION {{OptionLabel(item_options[k][2][j]) :
                          j \in 1..Len(item_options[k][2])} :
                      k \in 1..Len(item_options)})

\* a loop over one item's offers that never asks whether the label lies in
\* the combination
RECURSIVE BestInAnyStore(_, _, _, _)
BestInAnyStore(store_prices, j, combo_set, best_option) ==
    IF j > Len(store_prices) THEN best_option
    ELSE IF IsNone(best_option)
            \/ store_prices[j].price_value < Val(best_option).price_value
    THEN BestInAnyStore(store_prices, j + 1, combo_set, Some(store_prices[j]))
    ELSE BestInAnyStore(store_prices, j + 1, combo_set, best_option)

\* the loop over one item's offers, from offer j on: the first offer with
\* the lowest price among those whose label lies in the combination
RECURSIVE BestInCombo(_, _, _, _)
BestInCombo(store_prices, j, combo_set, best_option) ==
    IF j > Len(store_prices) THEN best_option
    ELSE IF OptionLabel(store_prices[j]) \notin combo_set
    THEN BestInCombo(store_prices, j + 1, combo_set, best_option)
    ELSE IF IsNone(best_option)
            \/ store_prices[j].price_value < Val(best_option).price_value
    THEN BestInCombo(store_prices, j + 1, combo_set, Some(store_prices[j]))
    ELSE BestInCombo(store_prices, j + 1, combo_set, best_option)

\* a pruning test with the comparison turned around
ReachesBestFlipped(total_cost, best_total) ==
    IsNone(best_total) \/ total_cost <= Val(best_total)

\* a pruning test that gives up one unit of price too early
ReachesBestEarly(total_cost, best_total) ==
    ~IsNone(best_total) /\ total_cost + 10 >= Val(best_total)

\* total_cost >= best_total, where best_total starts as float("inf") (None)
ReachesBest(total_cost, best_total) ==
    ~IsNone(best_total) /\ total_cost >= Val(best_total)

\* what the loop over the items does with one item once its best offer in
\* the combination is known
ComboTake(st, item_name, best_option, best_total) ==
    IF IsNone(best_option) THEN [st EXCEPT !.feasible = FALSE]
    ELSE [feasible |-> ~ReachesBest(st.total_cost + Val(best_option).price_value,
                                    best_total),
          assignment |-> DictAppend(st.assignment, OptionLabel(Val(best_option)),
                                    AssignmentEntry(item_name, Val(best_option))),
          total_cost |-> st.total_cost + Val(best_option).price_value]

\* the body of the loop over the items for one combination
ComboStep(st, item, combo_set, best_total) ==
    CHOOSE r \in {ComboTake(st, item[1], b, best_total) :
                    b \in {BestInCombo(item[2], 1, combo_set, None)}} : TRUE

\* the loop over the items for one combination, from item k on; it breaks
\* when an item has no offer in the combination or the running cost reaches
\* the best total
RECURSIVE EvalComboFrom(_, _, _, _, _)
EvalComboFrom(item_options, k, combo_set, st, best_total) ==
    IF k > Len(item_options) \/ ~st.feasible THEN st
    ELSE CHOOSE r \in {EvalComboFrom(item_options, k + 1, combo_set, s2, best_total) :
                         s2 \in {ComboStep(st, item_options[k], combo_set, best_total)}} :
             TRUE

\* the end of the loop body: a feasible, strictly cheaper combination
\* becomes the best
ComboKeep(r, best) ==
    IF r.feasible /\ (IsNone(best.best_total) \/ r.total_cost < Val(best.best_total))
    THEN [best_assignment |-> Some(r.assignment),
          best_total |-> Some(r.total_cost),
          examined |-> best.examined + 1]
    ELSE [best EXCEPT !.examined = @ + 1]

\* the body of the loop over the combinations
EvalCombo(item_options, combo, best) ==
    CHOOSE b2 \in {ComboKeep(r, best) :
                     r \in {EvalComboFrom(
                                item_options, 1, combo_set,
                                [feasible |-> TRUE, assignment |-> <<>>,
                                 total_cost |-> 0],
                                best.best_total) :
                            combo_set \in {{combo[i] : i \in 1..Len(combo)}}}} : TRUE

\* for combo in combinations(store_labels, size): the combinations that
\* extend combo with labels from position start on, in itertools order
RECURSIVE SearchCombos(_, _, _, _, _, _)
SearchCombos(item_options, store_labels, combo, start, size, best) ==
    IF Len(combo) = size THEN EvalCombo(item_options, combo, best)
    ELSE IF Len(store_labels) - start + 1 < size - Len(combo) THEN best
    ELSE CHOOSE r \in {SearchCombos(item_options, store_labels, combo,
                                    start + 1, size, taken) :
                         taken \in {SearchCombos(item_options, store_labels,
                                                 Append(combo, store_labels[start]),
                                                 start + 1, size, best)}} : TRUE

\* for size in range(1, max_size + 1)
RECURSIVE SearchSizes(_, _, _, _, _)
SearchSizes(item_options, store_labels, size, max_size, best) ==
    IF size > max_size THEN best
    ELSE CHOOSE r \in {SearchSizes(item_options, store_labels, size + 1,
                                   max_size, b) :
                         b \in {SearchCombos(item_options, store_labels, <<>>, 1,
                                             size, best)}} : TRUE

\* a log record
LogRecord(kind, args) == [kind |-> kind, args |-> args]

\* a call run() makes: the callee and what it is called with
CallRecord(callee, arg) == [callee |-> callee, arg |-> arg]

\* what an assigner returns and does: the pair it returns, the warnings it
\* logs and the number of store combinations it examined
AssignResult(assignments, total_cost, warnings, examined) ==
    [assignments |-> assignments, total_cost |-> total_cost,
     warnings |-> warnings, examined |-> examined]

\* return self._assign_unlimited(item_options), with the warnings logged before
ReturnUnlimited(item_options, warnings) ==
    CHOOSE r \in {AssignResult(Some(u.assignments), Some(u.total_cost), warnings, 0) :
                    u \in {_assign_unlimited(item_options)}} : TRUE

\* a search whose loop over the sizes runs one size too far
SearchResultOneMore(item_options, store_labels, max_size) ==
    CHOOSE r \in {AssignResult(best.best_assignment, best.best_total, <<>>,
                               best.examined) :
                    best \in {SearchSizes(item_options, store_labels, 1, max_size + 1,
                                          [best_assignment |-> None,
                                           best_total |-> None,
                                           examined |-> 0])}} : TRUE

\* the loops over the sizes and the combinations, and the return after them
SearchResult(item_options, store_labels, max_size) ==
    CHOOSE r \in {AssignResult(best.best_assignment, best.best_total, <<>>,
                               best.examined) :
                    best \in {SearchSizes(item_options, store_labels, 1, max_size,
                                          [best_assignment |-> None,
                                           best_total |-> None,
                                           examined |-> 0])}} : TRUE

\* a _find_best_combination whose vacuity test is max_size > n
FindWithLabelsStrict(item_options, max_stores, store_labels) ==
    LET n == Len(store_labels)
        max_size == IF max_stores < n THEN max_stores ELSE n
    IN  IF store_labels = <<>> THEN AssignResult(None, None, <<>>, 0)
        ELSE IF max_size > n THEN ReturnUnlimited(item_options, <<>>)
        ELSE SearchResult(item_options, store_labels, max_size)

\* _find_best_combination once store_labels is computed
FindWithLabels(item_options, max_stores, store_labels) ==
    LET n == Len(store_labels)
        max_size == IF max_stores < n THEN max_stores ELSE n
        combination_count == CombinationCount(n, max_size)
    IN  IF store_labels = <<>> THEN AssignResult(None, None, <<>>, 0)
        ELSE IF max_size >= n THEN ReturnUnlimited(item_options, <<>>)
        ELSE IF combination_count > CombinationCeiling
        THEN ReturnUnlimited(item_options,
                             <<LogRecord("too_many_combinations",
                                         <<max_stores, combination_count>>)>>)
        ELSE SearchResult(item_options, store_labels, max_size)

_find_best_combination(item_options, max_stores) ==
    CHOOSE r \in {FindWithLabels(item_options, max_stores, store_labels) :
                    store_labels \in {StoreLabels(item_options)}} : TRUE

\* ------------------------------------------------------------------------
\* PriceOptimizer._assign_items
\* ------------------------------------------------------------------------
\* an _assign_items that hands an infeasible search on as an empty assignment
AssignNoFallback(item_options, max_stores, f) ==
    IF IsNone(f.assignments) \/ IsNone(f.total_cost)
    THEN AssignResult(Some(<<>>), Some(0), f.warnings, f.examined)
    ELSE f

\* the end of _assign_items: f is what _find_best_combination returned
AssignFallback(item_options, max_stores, f) ==
    IF IsNone(f.assignments) \/ IsNone(f.total_cost)
    THEN CHOOSE r \in {AssignResult(u.assignments, u.total_cost, u.warnings,
                                    f.examined) :
                         u \in {ReturnUnlimited(
                                    item_options,
                                    Append(f.warnings,
                                           LogRecord("store_limit_fallback",
                                                     <<max_stores>>)))}} : TRUE
    ELSE f

_assign_items(item_options, max_stores) ==
    IF item_options = <<>> THEN AssignResult(Some(<<>>), Some(0), <<>>, 0)
    ELSE IF IsNone(max_stores) THEN ReturnUnlimited(item_options, <<>>)
    ELSE CHOOSE r \in {AssignFallback(item_options, Val(max_stores), f) :
                         f \in {_find_best_combination(item_options,
                                                       Val(max_stores))}} : TRUE

\* ------------------------------------------------------------------------
\* PriceOptimizer._format_results
\* ------------------------------------------------------------------------
\* sum(price for _, _, price in entries), over the first n entries
RECURSIVE EntriesTotalTo(_, _)
EntriesTotalTo(entries, n) ==
    IF n = 0 THEN 0 ELSE EntriesTotalTo(entries, n - 1) + entries[n][3]

EntriesTotal(entries) == EntriesTotalTo(entries, Len(entries))

\* where an unstable sort might put x: before the pairs of the same key
InsertBeforeEqual(sorted, x) ==
    LET after == {i \in 1..Len(sorted) : sorted[i][1] >= x[1]}
        at == IF after = {} THEN Len(sorted) + 1
              ELSE CHOOSE i \in after : \A j \in after : i <= j
    IN  SubSeq(sorted, 1, at - 1) \o <<x>> \o SubSeq(sorted, at, Len(sorted))

\* where a stable sort puts x among the sorted pairs before it: behind
\* every pair whose key is not greater
InsertByKey(sorted, x) ==
    LET after == {i \in 1..Len(sorted) : sorted[i][1] > x[1]}
        at == IF after = {} THEN Len(sorted) + 1
              ELSE CHOOSE i \in after : \A j \in after : i <= j
    IN  SubSeq(sorted, 1, at - 1) \o <<x>> \o SubSeq(sorted, at, Len(sorted))

\* sorted(xs, key=...), on the first n of the <<key, x>> pairs of xs: a
\* stable sort, equal keys keep their input order
RECURSIVE SortedByKeyTo(_, _)
SortedByKeyTo(pairs, n) ==
    IF n = 0 THEN <<>>
    ELSE CHOOSE r \in {InsertByKey(sorted, pairs[n]) :
                         sorted \in {SortedByKeyTo(pairs, n - 1)}} : TRUE

SortedByKey(pairs) == SortedByKeyTo(pairs, Len(pairs))

\* rows that keep the numeric price
FormatRowsNumeric(entries) ==
    [i \in 1..Len(entries) |-> <<entries[i][1], entries[i][2], entries[i][3]>>]

\* [[item_name, price_str] for item_name, price_str, _ in entries]
FormatRows(entries) ==
    [i \in 1..Len(entries) |-> <<entries[i][1], entries[i][2]>>]

\* the loop that fills formatted in the order of ordered_stores
FormatOrdered(assignments, ordered_stores) ==
    [i \in 1..Len(ordered_stores) |->
        [key |-> ordered_stores[i][2],
         val |-> FormatRows(Lookup(assignments, ordered_stores[i][2]))]]

\* a formatter that keeps the order of the assignment
FormatUnsorted(assignments) ==
    [i \in 1..Len(assignments) |->
        [key |-> assignments[i].key, val |-> FormatRows(assignments[i].val)]]

_format_results(assignments) ==
    IF assignments = <<>> THEN <<>>
    ELSE CHOOSE formatted \in
             {FormatOrdered(assignments, ordered_stores) :
                ordered_stores \in
                    {SortedByKey([i \in 1..Len(assignments) |->
                                    <<EntriesTotal(assignments[i].val),
                                      assignments[i].key>>])}} : TRUE

\* ------------------------------------------------------------------------
\* PriceOptimizer._build_shufersal_comparison
\* ------------------------------------------------------------------------
\* SupermarketScraper.SHUFERSAL_LABEL: the chain name, which in the model's
\* alphabet is the store name "B"
SHUFERSAL_LABEL == <<"B">>

\* next((entry for entry in store_prices if marker in entry.name), None),
\* from offer j on
RECURSIVE FirstMatchFrom(_, _, _)
FirstMatchFrom(store_prices, j, marker) ==
    IF j > Len(store_prices) THEN None
    ELSE IF IsSubstring(marker, store_prices[j].name) THEN Some(store_prices[j])
    ELSE FirstMatchFrom(store_prices, j + 1, marker)

\* one iteration of the loop over item_options: st is (store_name, entries)
ComparisonStep(st, item, marker) ==
    CHOOSE r \in {IF IsNone(match) THEN st
                  ELSE [store_name |-> Some(OptionLabel(Val(match))),
                        entries |-> Append(st.entries,
                                           <<item[1], Val(match).price_str>>)] :
                    match \in {FirstMatchFrom(item[2], 1, marker)}} : TRUE

\* the loop over item_options, from item k on
RECURSIVE ComparisonFrom(_, _, _, _)
ComparisonFrom(item_options, k, st, marker) ==
    IF k > Len(item_options) THEN st
    ELSE CHOOSE r \in {ComparisonFrom(item_options, k + 1, next, marker) :
                         next \in {ComparisonStep(st, item_options[k], marker)}} : TRUE

\* the same without the test that store_name is not yet a key of the results
BuildComparisonOverwriting(item_options, existing_results) ==
    CHOOSE r \in
      {IF ~IsNone(st.store_name) /\ Val(st.store_name) # <<>> /\ st.entries # <<>>
       THEN Some(<<Val(st.store_name), st.entries>>)
       ELSE None :
         st \in {ComparisonFrom(item_options, 1,
                                [store_name |-> None, entries |-> <<>>],
                                SHUFERSAL_LABEL)}} : TRUE

\* None, or the pair (store_name, entries) of the comparison row
_build_shufersal_comparison(item_options, existing_results) ==
    IF SHUFERSAL_LABEL = <<>> THEN None
    ELSE CHOOSE r \in
           {IF /\ ~IsNone(st.store_name) /\ Val(st.store_name) # <<>>
               /\ st.entries # <<>>
               /\ ~HasKey(existing_results, Val(st.store_name))
            THEN Some(<<Val(st.store_name), st.entries>>)
            ELSE None :
              st \in {ComparisonFrom(item_options, 1,
                                     [store_name |-> None, entries |-> <<>>],
                                     SHUFERSAL_LABEL)}} : TRUE

\* ------------------------------------------------------------------------
\* PriceOptimizer._fetch_store_prices
\* ------------------------------------------------------------------------
\* one entry of the "stores" list of SupermarketScraper.get_prices
StoreEntry(store, location, price, price_value) ==
    [store |-> store, location |-> location, price |-> price,
     price_value |-> price_value]

\* the price_value of an entry: the one supplied, else parse_price(price_str)
EntryPriceValue(entry) ==
    IF IsNone(entry.price_value) THEN parse_price(Val(entry.price))
    ELSE entry.price_value

\* the loop over prices.get("stores", []), from entry k on: the entries
\* that become StoreOptions
RECURSIVE StoreEntriesFrom(_, _)
StoreEntriesFrom(stores, k) ==
    IF k > Len(stores) THEN <<>>
    ELSE IF IsNone(stores[k].store) \/ Val(stores[k].store) = <<>>
            \/ IsNone(stores[k].price) \/ Val(stores[k].price) = <<>>
    THEN StoreEntriesFrom(stores, k + 1)
    ELSE IF IsNone(EntryPriceValue(stores[k])) THEN StoreEntriesFrom(stores, k + 1)
    ELSE <<StoreOption(Val(stores[k].store), stores[k].location,
                       Val(EntryPriceValue(stores[k])), Val(stores[k].price))>>
         \o StoreEntriesFrom(stores, k + 1)

\* store_entries.sort(key=price_value); return tuple(store_entries)
SortedOptions(store_entries) ==
    CHOOSE r \in {[i \in 1..Len(sorted) |-> sorted[i][2]] :
                    sorted \in {SortedByKey([i \in 1..Len(store_entries) |->
                                               <<store_entries[i].price_value,
                                                 store_entries[i]>>])}} : TRUE

\* prices is what scraper.get_prices(item) returned: None or the "stores" list
_fetch_store_prices(prices) ==
    IF IsNone(prices) THEN <<>>
    ELSE CHOOSE r \in {SortedOptions(store_entries) :
                         store_entries \in {StoreEntriesFrom(Val(prices), 1)}} : TRUE

\* ------------------------------------------------------------------------
\* SupermarketScraper.get_prices, as far as the optimizer reads its result
\* ------------------------------------------------------------------------
\* a row of the site's price table, after the scraper's column extraction
SiteRow(store, location, price) ==
    [store |-> store, location |-> location, price |-> price]

\* the loop over data_rows, from row k on: rows without a price text, a
\* store name or a parseable price are skipped
RECURSIVE ScrapedEntriesFrom(_, _)
ScrapedEntriesFrom(rows, k) ==
    IF k > Len(rows) THEN <<>>
    ELSE IF rows[k].price = <<>> \/ rows[k].store = <<>>
            \/ IsNone(parse_price(rows[k].price))
    THEN ScrapedEntriesFrom(rows, k + 1)
    ELSE <<StoreEntry(Some(rows[k].store), rows[k].location, Some(rows[k].price),
                      parse_price(rows[k].price))>>
         \o ScrapedEntriesFrom(rows, k + 1)

\* store_entries.sort(key=price_value) and the "stores" key of the result
SortedEntries(store_entries) ==
    CHOOSE r \in {[i \in 1..Len(sorted) |-> sorted[i][2]] :
                    sorted \in {SortedByKey([i \in 1..Len(store_entries) |->
                                               <<Val(store_entries[i].price_value),
                                                 store_entries[i]>>])}} : TRUE

\* get_prices: None, or the "stores" list sorted by price_value
get_prices(rows) ==
    CHOOSE r \in {IF store_entries = <<>> THEN None
                  ELSE Some(SortedEntries(store_entries)) :
                    store_entries \in {ScrapedEntriesFrom(rows, 1)}} : TRUE

\* ------------------------------------------------------------------------
\* The inputs of the model
\* ------------------------------------------------------------------------
milk == <<"m">>

bread == <<"b">>

eggs == <<"e">>

\* the lines a grocery file is made of: two item names (one with trailing
\* whitespace) and a blank line
GroceryLines == {milk, bread \o <<" ">>, <<" ">>}

\* the grocery files: up to MaxItems lines
GroceryFiles == UNION {[1..n -> GroceryLines] : n \in 0..MaxItems}

\* the stores of the small site: three store labels, "A", "B" and "B - x"
SmallStores ==
    {<<<<"A">>, None>>, <<<<"B">>, Some(<<"B">>)>>, <<<<"B", " ">>, Some(<<"x">>)>>}

\* the price texts of the small site: 1.0 and 2.0
SmallPrices == {<<"1">>, <<"2", "*">>}

SmallRows == {SiteRow(st[1], st[2], p) : st \in SmallStores, p \in SmallPrices}

\* what the small site shows for an item: nothing, one row or two rows
SmallTables ==
    {<<>>} \cup {<<r>> : r \in SmallRows}
           \cup {<<r, q>> : r \in SmallRows, q \in SmallRows}

\* the store limits tried on the small site (--max-stores)
SmallLimits == {None, Some(1), Some(2)}

\* the stores of the wide site: "SAA", "SAB", ... in sorted order
WideLetters == <<"A", "B", "C", "D", "E">>

WideStore(i) ==
    <<"S", WideLetters[((i - 1) \div 5) + 1], WideLetters[((i - 1) % 5) + 1]>>

\* the table of the wide site with n rows, one per store
WideTable(n) ==
    [i \in 1..n |->
        SiteRow(WideStore(i), None, IF i % 2 = 0 THEN <<"1">> ELSE <<"2", "*">>)]

\* what the wide site shows for an item: nothing, 17 stores or 20 stores
WideTables == {<<>>, WideTable(17), WideTable(20)}

\* the store limits tried on the wide site
WideLimits == {Some(2), Some(10)}

SiteTables(s) == IF s = "small" THEN SmallTables ELSE WideTables

\* the store and location fields of the rows a scraper may answer with:
\* no store, an empty one, "A", " A" (the same label) and "B" at "x"
RawStores ==
    {<<None, None>>, <<Some(<<>>), None>>, <<Some(<<"A">>), None>>,
     <<Some(<<" ", "A">>), None>>, <<Some(<<"B">>), Some(<<"x">>)>>}

\* their price and price_value fields: no price text, an empty one, a
\* parseable one and one without any digit, with and without a number
RawPrices ==
    {<<None, None>>, <<Some(<<>>), None>>,
     <<Some(<<"1">>), None>>, <<Some(<<"1">>), Some(10)>>,
     <<Some(<<"2", "*">>), None>>, <<Some(<<"2", "*">>), Some(20)>>,
     <<Some(<<"*">>), None>>, <<Some(<<"*">>), Some(30)>>}

RawEntries ==
    {StoreEntry(st[1], st[2], p[1], p[2]) : st \in RawStores, p \in RawPrices}

\* the "stores" lists of up to MaxRows rows
RawResponses == UNION {[1..n -> RawEntries] : n \in 0..MaxRows}

\* ------------------------------------------------------------------------
\* The state: one PriceOptimizer and its run()
\* ------------------------------------------------------------------------
VARIABLES
    response,        \* _fetch_store_prices: prices, what get_prices returned
    normalized,      \* _fetch_store_prices: the tuple it returns
    run,             \* the number of the current call of run() on this object
    fetched_before,  \* the item names fetched by the earlier calls of run()
    site,            \* which site the scraper reads: "small" or "wide"
    max_stores,      \* self.max_stores
    compare_to_shfsl, \* self.compare_to_shfsl
    last_total_cost, \* self.last_total_cost
    pc,              \* the position of run()
    items,           \* run: items
    idx,             \* _collect_prices: position of the loop over items
    price_cache,     \* _collect_prices: price_cache
    item_options,    \* _collect_prices: item_options
    missing_items,   \* _collect_prices: missing_items
    log,             \* the warnings logged so far by this call of run()
    assignments,     \* run: assignments
    total_cost,      \* run: total_cost
    examined,        \* the store combinations the search has examined
    results,         \* run: results (the value returned once pc = "done")
    calls            \* the calls run() has made so far: time.sleep, the
                     \* fetches, _assign_items, _format_results and
                     \* _build_shufersal_comparison, in order

\* main() of src/main.py
VARIABLES
    main_args,       \* what main() is started with: whether the city is in
                     \* cities.json, --formats, --notify
    main_pc,         \* "idle", "start", "returned" or "TypeError"
    main_calls       \* the calls main() has completed, in order

main_vars == <<main_args, main_pc, main_calls>>

\* main() has not been started
MainIdle ==
    /\ main_args = None
    /\ main_pc = "idle"
    /\ main_calls = <<>>

\* BaseScraper._request
VARIABLES
    retries,         \* self.retries
    backoff,         \* self.backoff
    attempt,         \* the loop variable of _request
    request_pc,      \* "idle", "loop", "returned", "raised" or "fell_through"
    request_trace    \* the requests sent and the sleeps made, in order

request_vars == <<retries, backoff, attempt, request_pc, request_trace>>

RequestIdle ==
    /\ retries = 0
    /\ backoff = 0
    /\ attempt = 0
    /\ request_pc = "idle"
    /\ request_trace = <<>>

\* SupermarketScraper.get_prices from its call to the unpacking of the lookup
VARIABLES
    autocomplete,    \* the JSON the autocompletion endpoint answers with
    site_table,      \* the rows of the price table of the product
    lookup_pc,       \* "idle", "call", "returned" or "ValueError"
    prices_out       \* what get_prices returned

lookup_vars == <<autocomplete, site_table, lookup_pc, prices_out>>

LookupIdle ==
    /\ autocomplete = <<>>
    /\ site_table = <<>>
    /\ lookup_pc = "idle"
    /\ prices_out = None

\* notifier._chunk_message
VARIABLES
    text,            \* the message text
    limit,           \* the size limit of a part
    parts,           \* the parts returned
    chunk_pc         \* "idle", "call" or "returned"

chunk_vars == <<text, limit, parts, chunk_pc>>

ChunkIdle ==
    /\ text = <<>>
    /\ limit = 0
    /\ parts = <<>>
    /\ chunk_pc = "idle"

\* the state outside the PriceOptimizer
outer_vars == <<main_vars, request_vars, lookup_vars, chunk_vars>>

OuterIdle == MainIdle /\ RequestIdle /\ LookupIdle /\ ChunkIdle

vars == <<outer_vars, response, normalized, run, fetched_before, site, max_stores, compare_to_shfsl, last_total_cost, pc, items, idx,
          price_cache, item_options, missing_items, log, assignments,
          total_cost, examined, results, calls>>

\* PriceOptimizer.__init__ and the locals of run() before its first line
InitRun ==
    /\ response = None
    /\ normalized = <<>>
    /\ run = 1
    /\ fetched_before = {}
    /\ last_total_cost = None
    /\ pc = "read"
    /\ items = <<>>
    /\ idx = 1
    /\ price_cache = <<>>
    /\ item_options = <<>>
    /\ missing_items = <<>>
    /\ log = <<>>
    /\ assignments = <<>>
    /\ total_cost = None
    /\ examined = 0
    /\ results = <<>>
    /\ calls = <<>>

Init ==
    /\ site = "small"
    /\ max_stores \in SmallLimits
    /\ compare_to_shfsl \in BOOLEAN
    /\ InitRun
    /\ OuterIdle

InitWide ==
    /\ site = "wide"
    /\ max_stores \in WideLimits
    /\ compare_to_shfsl \in BOOLEAN
    /\ InitRun
    /\ OuterIdle

\* a PriceOptimizer whose run() is called up to MaxRuns times
InitRuns ==
    /\ site = "small"
    /\ max_stores \in {None, Some(1)}
    /\ compare_to_shfsl \in BOOLEAN
    /\ InitRun
    /\ OuterIdle

\* the offers _collect_prices gathers for one item of the small site
SmallOffers == {_fetch_store_prices(get_prices(table)) : table \in SmallTables} \ {<<>>}

\* run() at the call of _assign_items, for the three-item list milk, bread,
\* eggs on the small site with a store limit
InitAssign ==
    /\ site = "small"
    /\ max_stores \in {Some(1), Some(2)}
    /\ OuterIdle
    /\ compare_to_shfsl = FALSE
    /\ response = None
    /\ normalized = <<>>
    /\ run = 1
    /\ fetched_before = {}
    /\ last_total_cost = None
    /\ pc = "assign"
    /\ items = <<milk, bread, eggs>>
    /\ idx = Len(items) + 1
    /\ item_options \in {<<<<milk, m>>, <<bread, b>>, <<eggs, e>>>> :
                            m \in SmallOffers, b \in SmallOffers, e \in SmallOffers}
    /\ price_cache = [k \in 1..Len(item_options) |->
                         [key |-> item_options[k][1], val |-> item_options[k][2]]]
    /\ missing_items = <<>>
    /\ log = <<>>
    /\ assignments = <<>>
    /\ total_cost = None
    /\ examined = 0
    /\ results = <<>>
    /\ calls = [k \in 1..(2 * Len(items)) |->
                   IF k % 2 = 1 THEN CallRecord("sleep", <<>>)
                   ELSE CallRecord("fetch", items[k \div 2])]

\* PriceOptimizer._read_items: [line.strip() for line in f if line.strip()]
RECURSIVE ReadItemsFrom(_, _)
ReadItemsFrom(lines, k) ==
    IF k > Len(lines) THEN <<>>
    ELSE IF Strip(lines[k]) # <<>>
    THEN <<Strip(lines[k])>> \o ReadItemsFrom(lines, k + 1)
    ELSE ReadItemsFrom(lines, k + 1)

_read_items(grocery_file) == ReadItemsFrom(grocery_file, 1)

\* run(): read the grocery file; an empty list ends the run with {}
ReadItems ==
    /\ pc = "read"
    /\ \E grocery_file \in GroceryFiles :
       \E read \in {_read_items(grocery_file)} :
         /\ items' = read
         /\ IF read = <<>>
            THEN /\ log' = Append(log, LogRecord("no_items", <<>>))
                 /\ results' = <<>>
                 /\ pc' = "done"
            ELSE /\ pc' = "collect"
                 /\ UNCHANGED <<log, results>>
    /\ UNCHANGED outer_vars
    /\ UNCHANGED <<response, normalized, run, fetched_before, site, max_stores, compare_to_shfsl, last_total_cost, idx,
                   price_cache, item_options, missing_items, assignments,
                   total_cost, examined, calls>>

\* a key of the cache whose value is not empty: the cache test written as
\* 'if not store_prices' instead of 'if store_prices is None'
Cached(d, k) == HasKey(d, k) /\ Lookup(d, k) # <<>>

\* the loop iteration with that cache test
CollectItemRefetchingEmpty ==
    /\ pc = "collect"
    /\ idx <= Len(items)
    /\ \E table \in IF Cached(price_cache, items[idx]) THEN {<<>>}
                     ELSE SiteTables(site) :
       \E store_prices \in {IF Cached(price_cache, items[idx])
                            THEN Lookup(price_cache, items[idx])
                            ELSE _fetch_store_prices(get_prices(table))} :
         /\ price_cache' = IF Cached(price_cache, items[idx]) THEN price_cache
                           ELSE DictSet(price_cache, items[idx], store_prices)
         /\ IF store_prices = <<>>
            THEN /\ missing_items' = Append(missing_items, items[idx])
                 /\ UNCHANGED item_options
            ELSE /\ item_options' = Append(item_options, <<items[idx], store_prices>>)
                 /\ UNCHANGED missing_items
    /\ calls' = IF Cached(price_cache, items[idx]) THEN calls
                 ELSE calls \o <<CallRecord("sleep", <<>>),
                                 CallRecord("fetch", items[idx])>>
    /\ idx' = idx + 1
    /\ UNCHANGED outer_vars
    /\ UNCHANGED <<response, normalized, run, fetched_before, site, max_stores, compare_to_shfsl, last_total_cost, pc, items,
                   log, assignments, total_cost, examined, results>>

\* _collect_prices: one iteration of the loop over items; table is what the
\* site shows for the item when it is fetched
CollectItem ==
    /\ pc = "collect"
    /\ idx <= Len(items)
    /\ \E table \in IF HasKey(price_cache, items[idx]) THEN {<<>>}
                     ELSE SiteTables(site) :
       \E store_prices \in {IF HasKey(price_cache, items[idx])
                            THEN Lookup(price_cache, items[idx])
                            ELSE _fetch_store_prices(get_prices(table))} :
         /\ price_cache' = IF HasKey(price_cache, items[idx]) THEN price_cache
                           ELSE DictSet(price_cache, items[idx], store_prices)
         /\ IF store_prices = <<>>
            THEN /\ missing_items' = Append(missing_items, items[idx])
                 /\ UNCHANGED item_options
            ELSE /\ item_options' = Append(item_options, <<items[idx], store_prices>>)
                 /\ UNCHANGED missing_items
    /\ calls' = IF HasKey(price_cache, items[idx]) THEN calls
                 ELSE calls \o <<CallRecord("sleep", <<>>),
                                 CallRecord("fetch", items[idx])>>
    /\ idx' = idx + 1
    /\ UNCHANGED outer_vars
    /\ UNCHANGED <<response, normalized, run, fetched_before, site, max_stores, compare_to_shfsl, last_total_cost, pc, items,
                   log, assignments, total_cost, examined, results>>

\* sorted(set(missing_items))
UniqueMissing(missing) == SortedStrs({missing[i] : i \in 1..Len(missing)})

\* one warning per missing item instead of one for all
MissingWarningPerItem(missing) ==
    [i \in 1..Len(missing) |-> LogRecord("missing", <<1, <<missing[i]>>>>)]

\* the warning run() logs about the missing items, if any
MissingWarning(missing) ==
    IF missing = <<>> THEN <<>>
    ELSE <<LogRecord("missing", <<Len(UniqueMissing(missing)), UniqueMissing(missing)>>)>>

\* the same without the early return when no item has a price
ReportMissingNoReturn ==
    /\ pc = "collect"
    /\ idx > Len(items)
    /\ log' = log \o MissingWarning(missing_items)
    /\ pc' = "assign"
    /\ UNCHANGED outer_vars
    /\ UNCHANGED <<response, normalized, run, fetched_before, site, max_stores, compare_to_shfsl, last_total_cost, items,
                   idx, price_cache, item_options, missing_items, assignments,
                   total_cost, examined, results, calls>>

\* an end of the collection whose early return clears last_total_cost
ReportMissingClearingTotal ==
    /\ pc = "collect"
    /\ idx > Len(items)
    /\ IF item_options = <<>>
       THEN /\ log' = log \o MissingWarning(missing_items)
                          \o <<LogRecord("no_price_data", <<>>)>>
            /\ results' = <<>>
            /\ last_total_cost' = None
            /\ pc' = "done"
       ELSE /\ log' = log \o MissingWarning(missing_items)
            /\ pc' = "assign"
            /\ UNCHANGED <<results, last_total_cost>>
    /\ UNCHANGED outer_vars
    /\ UNCHANGED <<response, normalized, run, fetched_before, site, max_stores,
                   compare_to_shfsl, items, idx, price_cache, item_options,
                   missing_items, assignments, total_cost, examined, calls>>

\* run(): after _collect_prices returns: the warning about missing items and
\* the early return when no item has a price
ReportMissing ==
    /\ pc = "collect"
    /\ idx > Len(items)
    /\ IF item_options = <<>>
       THEN /\ log' = log \o MissingWarning(missing_items)
                          \o <<LogRecord("no_price_data", <<>>)>>
            /\ results' = <<>>
            /\ pc' = "done"
       ELSE /\ log' = log \o MissingWarning(missing_items)
            /\ pc' = "assign"
            /\ UNCHANGED results
    /\ UNCHANGED outer_vars
    /\ UNCHANGED <<response, normalized, run, fetched_before, site, max_stores, compare_to_shfsl, last_total_cost, items,
                   idx, price_cache, item_options, missing_items, assignments,
                   total_cost, examined, calls>>

\* run(): assignments, total_cost = self._assign_items(item_options)
AssignItems ==
    /\ pc = "assign"
    /\ \E r \in {_assign_items(item_options, max_stores)} :
         /\ assignments' = Val(r.assignments)
         /\ total_cost' = r.total_cost
         /\ last_total_cost' = r.total_cost
         /\ examined' = r.examined
         /\ log' = log \o r.warnings
    /\ calls' = Append(calls, CallRecord("_assign_items", <<>>))
    /\ pc' = "format"
    /\ UNCHANGED outer_vars
    /\ UNCHANGED <<response, normalized, run, fetched_before, site, max_stores, compare_to_shfsl, items, idx, price_cache,
                   item_options, missing_items, results>>

\* run(): results = self._format_results(assignments)
FormatResults ==
    /\ pc = "format"
    /\ results' = _format_results(assignments)
    /\ calls' = Append(calls, CallRecord("_format_results", <<>>))
    /\ pc' = "compare"
    /\ UNCHANGED outer_vars
    /\ UNCHANGED <<response, normalized, run, fetched_before, site, max_stores, compare_to_shfsl, last_total_cost, items,
                   idx, price_cache, item_options, missing_items, log,
                   assignments, total_cost, examined>>

\* run(): the comparison-store row, when compare_to_shfsl is set, and the
\* return of results
CompareShufersal ==
    /\ pc = "compare"
    /\ IF compare_to_shfsl
       THEN /\ \E shufersal_entry \in
                    {_build_shufersal_comparison(item_options, results)} :
                 results' = IF IsNone(shufersal_entry) THEN results
                            ELSE DictSet(results, Val(shufersal_entry)[1],
                                         Val(shufersal_entry)[2])
            /\ calls' = Append(calls, CallRecord("_build_shufersal_comparison", <<>>))
       ELSE UNCHANGED <<results, calls>>
    /\ pc' = "done"
    /\ UNCHANGED outer_vars
    /\ UNCHANGED <<response, normalized, run, fetched_before, site, max_stores, compare_to_shfsl, last_total_cost, items,
                   idx, price_cache, item_options, missing_items, log,
                   assignments, total_cost, examined>>

\* the item names the calls made so far have fetched
FetchedNames ==
    {calls[i].arg : i \in {j \in 1..Len(calls) : calls[j].callee = "fetch"}}

\* run() is called again on the same PriceOptimizer: the object keeps its
\* attributes, the locals of run() and of _collect_prices are new
RunAgain ==
    /\ pc = "done"
    /\ run < MaxRuns
    /\ run' = run + 1
    /\ fetched_before' = fetched_before \cup FetchedNames
    /\ pc' = "read"
    /\ items' = <<>>
    /\ idx' = 1
    /\ price_cache' = <<>>
    /\ item_options' = <<>>
    /\ missing_items' = <<>>
    /\ log' = <<>>
    /\ assignments' = <<>>
    /\ total_cost' = None
    /\ examined' = 0
    /\ results' = <<>>
    /\ calls' = <<>>
    /\ UNCHANGED outer_vars
    /\ UNCHANGED <<response, normalized, site, max_stores, compare_to_shfsl,
                   last_total_cost>>

Next ==
    \/ ReadItems
    \/ CollectItem
    \/ ReportMissing
    \/ AssignItems
    \/ FormatResults
    \/ CompareShufersal

Spec == Init /\ [][Next]_vars

SpecWide == InitWide /\ [][Next]_vars

\* _fetch_store_prices alone, on a scraper response of any rows
InitNormalize ==
    /\ site = "small"
    /\ max_stores = None
    /\ compare_to_shfsl = FALSE
    /\ OuterIdle
    /\ response \in {Some(stores) : stores \in RawResponses}
    /\ normalized = <<>>
    /\ run = 1
    /\ fetched_before = {}
    /\ last_total_cost = None
    /\ pc = "fetch"
    /\ items = <<milk>>
    /\ idx = 1
    /\ price_cache = <<>>
    /\ item_options = <<>>
    /\ missing_items = <<>>
    /\ log = <<>>
    /\ assignments = <<>>
    /\ total_cost = None
    /\ examined = 0
    /\ results = <<>>
    /\ calls = <<CallRecord("sleep", <<>>), CallRecord("fetch", milk)>>

\* store_prices = self._fetch_store_prices(item), on the response
FetchStorePrices ==
    /\ pc = "fetch"
    /\ normalized' = _fetch_store_prices(response)
    /\ pc' = "fetched"
    /\ UNCHANGED outer_vars
    /\ UNCHANGED <<response, run, fetched_before, site, max_stores,
                   compare_to_shfsl, last_total_cost, items, idx, price_cache,
                   item_options, missing_items, log, assignments, total_cost,
                   examined, results, calls>>

\* the offers as rows of a response: what the scraper would answer if the
\* site showed exactly the normalized offers
AsResponse(offers) ==
    Some([i \in 1..Len(offers) |->
            StoreEntry(Some(offers[i].name), offers[i].location,
                       Some(offers[i].price_str), Some(offers[i].price_value))])

\* the normalizer applied again, to its own result
FetchAgain ==
    /\ pc = "fetched"
    /\ response' = AsResponse(normalized)
    /\ normalized' = _fetch_store_prices(AsResponse(normalized))
    /\ pc' = "refetched"
    /\ UNCHANGED outer_vars
    /\ UNCHANGED <<run, fetched_before, site, max_stores,
                   compare_to_shfsl, last_total_cost, items, idx, price_cache,
                   item_options, missing_items, log, assignments, total_cost,
                   examined, results, calls>>

NextNormalize ==
    \/ FetchStorePrices
    \/ FetchAgain

SpecNormalize == InitNormalize /\ [][NextNormalize]_vars

\* the PriceOptimizer before any call of run(), without limit and comparison
OptimizerIdle ==
    /\ site = "small"
    /\ max_stores = None
    /\ compare_to_shfsl = FALSE
    /\ InitRun

optimizer_vars ==
    <<response, normalized, run, fetched_before, site, max_stores,
      compare_to_shfsl, last_total_cost, pc, items, idx, price_cache,
      item_options, missing_items, log, assignments, total_cost, examined,
      results, calls>>

\* several calls of run() on one PriceOptimizer
NextRuns ==
    \/ Next
    \/ RunAgain

SpecRuns == InitRuns /\ [][NextRuns]_vars

\* the assigners and the formatter alone, on three-item working sets
NextAssign ==
    \/ AssignItems
    \/ FormatResults

SpecAssign == InitAssign /\ [][NextAssign]_vars

\* ------------------------------------------------------------------------
\* Reference definitions for the properties: they are computed from the
\* working set with sets and quantifiers, not with the loops of the code
\* ------------------------------------------------------------------------
\* the position of run() right after _assign_items has returned
Assigned == pc = "format"

\* the working set's items
WorkingItems == 1..Len(item_options)

\* the offers of working-set item k
OffersOf(k) == item_options[k][2]

\* the Candidate Store Set
CandidateStores ==
    UNION {{OptionLabel(OffersOf(k)[j]) : j \in 1..Len(OffersOf(k))} : k \in WorkingItems}

\* the prices item k has among the stores of S
PricesIn(k, S) ==
    {OffersOf(k)[j].price_value :
        j \in {i \in 1..Len(OffersOf(k)) : OptionLabel(OffersOf(k)[i]) \in S}}

\* the least element of a non-empty set of numbers
Least(P) == CHOOSE p \in P : \A q \in P : p <= q

\* S covers every item
Covers(S) == \A k \in WorkingItems : PricesIn(k, S) # {}

\* the sum over the items up to k of the cheapest price among the stores of S
RECURSIVE CostUpTo(_, _)
CostUpTo(S, k) ==
    IF k = 0 THEN 0 ELSE CostUpTo(S, k - 1) + Least(PricesIn(k, S))

CostIn(S) == CostUpTo(S, Len(item_options))

\* the store subsets of size 1..K, and those among them that cover every item
SubsetsUpTo(K) == {S \in SUBSET CandidateStores : Cardinality(S) \in 1..K}

FeasibleSubsets(K) == {S \in SubsetsUpTo(K) : Covers(S)}

\* a limit K < n is set and the search space is within the ceiling
LimitBinds ==
    /\ ~IsNone(max_stores)
    /\ Val(max_stores) < Cardinality(CandidateStores)
    /\ Cardinality(SubsetsUpTo(Val(max_stores))) <= 100000

\* the stores an assignment uses
StoresUsed(a) == {a[i].key : i \in 1..Len(a)}

\* ------------------------------------------------------------------------
\* C1: with K < n, a combination count within the ceiling and some store
\* subset of size <= K covering every item, the total cost the constrained
\* search returns is the minimum, over the covering subsets of size <= K, of
\* the sum over the items of the item's cheapest price within the subset.
\* ------------------------------------------------------------------------
C1_ConstrainedTotalIsMinimum ==
    (Assigned /\ LimitBinds /\ FeasibleSubsets(Val(max_stores)) # {})
        => /\ \E S \in FeasibleSubsets(Val(max_stores)) : total_cost = Some(CostIn(S))
           /\ \A S \in FeasibleSubsets(Val(max_stores)) : Val(total_cost) <= CostIn(S)

\* three items, three stores, at most two of them: the limit costs money
C1_Witness ==
    /\ Assigned /\ LimitBinds
    /\ max_stores = Some(2)
    /\ Cardinality(CandidateStores) = 3
    /\ FeasibleSubsets(2) # {}
    /\ Val(total_cost) > CostIn(CandidateStores)

\* ------------------------------------------------------------------------
\* C2 (as claimed): with max_stores = K the assignment and the result of
\* run() hold at most K distinct stores, for every input.
\* ------------------------------------------------------------------------
C2_AtMostKStores ==
    ~IsNone(max_stores)
        => /\ Cardinality(StoresUsed(assignments)) <= Val(max_stores)
           /\ Cardinality(StoresUsed(results)) <= Val(max_stores)

\* C2 (amended): with max_stores = K the assignment and the rows formatted
\* from it hold at most K distinct stores whenever some set of at most K
\* store labels offers every item and the combination count is within the
\* ceiling.
C2_AtMostKStoresWhenFeasible ==
    (/\ ~IsNone(max_stores)
     /\ item_options # <<>>
     /\ Cardinality(SubsetsUpTo(Val(max_stores))) <= 100000
     /\ FeasibleSubsets(Val(max_stores)) # {})
        => /\ Cardinality(StoresUsed(assignments)) <= Val(max_stores)
           /\ \/ pc = "done" /\ compare_to_shfsl
              \/ Cardinality(StoresUsed(results)) <= Val(max_stores)

\* a run that ended with as many stores as the limit allows, fewer than the
\* unconstrained assignment would use
C2_Witness ==
    /\ pc = "done"
    /\ max_stores = Some(1)
    /\ Cardinality(StoresUsed(results)) = 1
    /\ Cardinality(StoresUsed(_assign_unlimited(item_options).assignments)) = 2

\* ------------------------------------------------------------------------
\* C3: _assign_unlimited assigns each item to the first minimum-price offer
\* of its offer list, which is the first element of the sorted list, and
\* its total_cost is the sum over the items of the minimum price_value.
\* ------------------------------------------------------------------------
\* the first position of offer list k that holds its lowest price
FirstMinimum(k) ==
    CHOOSE j \in 1..Len(OffersOf(k)) :
        /\ OffersOf(k)[j].price_value = Least(PricesIn(k, CandidateStores))
        /\ \A i \in 1..(j - 1) : OffersOf(k)[i].price_value # OffersOf(k)[j].price_value

\* the entries an assignment holds for a store (none if it is no key)
EntriesAt(a, store) ==
    IF HasKey(a, store) THEN Lookup(a, store) ELSE <<>>

\* entry e is among the entries of a sequence
InEntries(e, entries) == \E i \in 1..Len(entries) : entries[i] = e

C3_UnlimitedPicksFirstMinimum ==
    (Assigned /\ IsNone(max_stores))
        => /\ \A k \in WorkingItems :
                /\ FirstMinimum(k) = 1
                /\ InEntries(<<item_options[k][1], OffersOf(k)[1].price_str,
                               OffersOf(k)[1].price_value>>,
                             EntriesAt(assignments, OptionLabel(OffersOf(k)[1])))
           /\ total_cost = Some(CostIn(CandidateStores))

\* two items, one of them with two equally cheap offers at different stores
C3_Witness ==
    /\ Assigned /\ IsNone(max_stores)
    /\ Len(item_options) = 2
    /\ \E k \in WorkingItems :
         /\ Len(OffersOf(k)) = 2
         /\ OffersOf(k)[1].price_value = OffersOf(k)[2].price_value
         /\ OptionLabel(OffersOf(k)[1]) # OptionLabel(OffersOf(k)[2])

\* ------------------------------------------------------------------------
\* C4: for K >= n the constrained assigner's result is exactly the
\* unconstrained assigner's result: same total cost, same per-store lists.
\* ------------------------------------------------------------------------
C4_VacuousLimitIsUnlimited ==
    (/\ Assigned
     /\ ~IsNone(max_stores)
     /\ Val(max_stores) >= Cardinality(CandidateStores))
        => /\ assignments = _assign_unlimited(item_options).assignments
           /\ total_cost = Some(_assign_unlimited(item_options).total_cost)
           /\ examined = 0

\* K = n = 2, and a cheaper-or-equal single store exists that sorts first,
\* so that a search would have answered differently
C4_Witness ==
    /\ Assigned
    /\ max_stores = Some(2)
    /\ Cardinality(CandidateStores) = 2
    /\ Cardinality(StoresUsed(assignments)) = 1
    /\ \E S \in FeasibleSubsets(1) :
         /\ CostIn(S) = Val(total_cost)
         /\ S # StoresUsed(assignments)

\* ------------------------------------------------------------------------
\* C5: when no store subset of size <= K covers every item,
\* _find_best_combination returns no assignment and _assign_items logs a
\* warning and returns the full unconstrained assignment; with a store
\* limit set, _assign_items never returns an empty or partial assignment
\* for a non-empty working set.
\* ------------------------------------------------------------------------
\* the number of entries of an assignment, over its first n stores
RECURSIVE EntryCountTo(_, _)
EntryCountTo(a, n) ==
    IF n = 0 THEN 0 ELSE EntryCountTo(a, n - 1) + Len(a[n].val)

EntryCount(a) == EntryCountTo(a, Len(a))

\* no subset of size <= K covers every item
Infeasible ==
    /\ ~IsNone(max_stores)
    /\ item_options # <<>>
    /\ FeasibleSubsets(Val(max_stores)) = {}

\* the last record of the log is the store-limit warning
LimitWarningLogged ==
    /\ log # <<>>
    /\ log[Len(log)] = LogRecord("store_limit_fallback", <<Val(max_stores)>>)

C5_InfeasibleFallsBack ==
    /\ (Assigned /\ Infeasible)
          => /\ IsNone(_find_best_combination(item_options, Val(max_stores)).assignments)
             /\ LimitWarningLogged
             /\ assignments = _assign_unlimited(item_options).assignments
             /\ total_cost = Some(_assign_unlimited(item_options).total_cost)
    /\ (Assigned /\ ~IsNone(max_stores))
          => /\ assignments # <<>>
             /\ EntryCount(assignments) = Len(item_options)

\* the two items share no store and the limit is one store
C5_Witness ==
    /\ Assigned /\ Infeasible
    /\ max_stores = Some(1)
    /\ Len(item_options) = 2
    /\ Cardinality(StoresUsed(assignments)) = 2

\* ------------------------------------------------------------------------
\* C6: with K < n the exact subset search is run if and only if the
\* combination count sum_{r=1..K} C(n,r) is at most 100000; above it no
\* subset is enumerated, a warning is logged and the unconstrained
\* assignment is returned.
\* ------------------------------------------------------------------------
\* row n of Pascal's triangle: C(n, 0), ..., C(n, n)
RECURSIVE PascalRow(_)
PascalRow(n) ==
    IF n = 0 THEN <<1>>
    ELSE CHOOSE row \in {[i \in 1..(n + 1) |->
                            (IF i > 1 THEN prev[i - 1] ELSE 0)
                            + (IF i <= n THEN prev[i] ELSE 0)] :
                         prev \in {PascalRow(n - 1)}} : TRUE

\* the sum of the first k entries of a sequence of numbers
RECURSIVE SumTo(_, _)
SumTo(xs, k) == IF k = 0 THEN 0 ELSE SumTo(xs, k - 1) + xs[k]

\* sum_{r=1..K} C(n, r)
SubsetCount(n, K) ==
    CHOOSE c \in {SumTo(row, K + 1) - 1 : row \in {PascalRow(n)}} : TRUE

\* K < n
LimitBelowStores ==
    ~IsNone(max_stores) /\ Val(max_stores) < Cardinality(CandidateStores)

\* the last record of the log is the warning about the combination count
CountWarningLogged ==
    /\ log # <<>>
    /\ log[Len(log)] =
           LogRecord("too_many_combinations",
                     <<Val(max_stores),
                       SubsetCount(Cardinality(CandidateStores), Val(max_stores))>>)

C6_SearchIffWithinCeiling ==
    (Assigned /\ LimitBelowStores)
        => \A count \in {SubsetCount(Cardinality(CandidateStores), Val(max_stores))} :
               /\ (examined > 0) <=> (count <= 100000)
               /\ (count <= 100000) => examined = count
               /\ (count > 100000)
                     => /\ CountWarningLogged
                        /\ assignments = _assign_unlimited(item_options).assignments
                        /\ total_cost = Some(_assign_unlimited(item_options).total_cost)

\* 20 candidate stores and max_stores = 10
C6_Witness ==
    /\ Assigned
    /\ max_stores = Some(10)
    /\ Cardinality(CandidateStores) = 20
    /\ examined = 0
    /\ CountWarningLogged

\* ------------------------------------------------------------------------
\* C7: in every assignment an assigner returns (fallbacks included) every
\* entry of the working set appears in exactly one store's entry list,
\* exactly once, and no entry appears that is not in the working set.
\* ------------------------------------------------------------------------
\* the <<store, position>> places of the assignment's entries
Places(a) == {<<i, j>> \in (1..Len(a)) \X (1..Len(item_options)) : j <= Len(a[i].val)}

\* entry p of the assignment is item k bought at one of its offers at the
\* store it is listed under
IsPurchaseOf(a, p, k) ==
    \E j \in 1..Len(OffersOf(k)) :
        /\ OptionLabel(OffersOf(k)[j]) = a[p[1]].key
        /\ a[p[1]].val[p[2]] = <<item_options[k][1], OffersOf(k)[j].price_str,
                                 OffersOf(k)[j].price_value>>

\* a one-to-one pairing of the working set's entries with the assignment's
\* entries, neither side left over
C7_EveryItemExactlyOnce ==
    Assigned
        => /\ \A i \in 1..Len(assignments) : Len(assignments[i].val) <= Len(item_options)
           /\ \A i, j \in 1..Len(assignments) :
                  assignments[i].key = assignments[j].key => i = j
           /\ Cardinality(Places(assignments)) = Len(item_options)
           /\ \E f \in [WorkingItems -> Places(assignments)] :
                  /\ \A k, l \in WorkingItems : f[k] = f[l] => k = l
                  /\ \A k \in WorkingItems : IsPurchaseOf(assignments, f[k], k)

\* the same item name twice in the working set, bought at one store
C7_Witness ==
    /\ Assigned
    /\ Len(item_options) = 2
    /\ item_options[1][1] = item_options[2][1]
    /\ Len(assignments) = 1
    /\ Len(assignments[1].val) = 2

\* ------------------------------------------------------------------------
\* C8 (as claimed): _format_results returns the stores in non-decreasing
\* order of per-store subtotal, and stores with equal subtotals appear in
\* lexical store-label order.
\* ------------------------------------------------------------------------
\* run() has formatted the assignment
Formatted == pc = "compare"

\* the subtotal of a store of the assignment
Subtotal(store) == EntriesTotal(Lookup(assignments, store))

\* the position of a store among the keys of the assignment
InsertionRank(store) == CHOOSE i \in 1..Len(assignments) : assignments[i].key = store

IsProjection(rows, entries) ==
    /\ Len(rows) = Len(entries)
    /\ \A i \in 1..Len(rows) :
         /\ Len(rows[i]) = 2
         /\ rows[i][1] = entries[i][1]
         /\ rows[i][2] = entries[i][2]

C9_FormatIsProjection ==
    [][pc = "format"
          => /\ assignments' = assignments
             /\ StoresUsed(results') = StoresUsed(assignments)
             /\ Len(results') = Len(assignments)
             /\ \A i \in 1..Len(results') :
                    IsProjection(results'[i].val, Lookup(assignments, results'[i].key))
             /\ _format_results(<<>>) = <<>>]_vars

\* a formatted result of two stores, in another order than the assignment's
C9_Witness ==
    /\ Formatted
    /\ Len(results) = 2
    /\ results[1].key = assignments[2].key
    /\ results[1].val = <<<<assignments[2].val[1][1], assignments[2].val[1][2]>>>>

\* ------------------------------------------------------------------------
\* C10: in run(), an item whose fetch yields no parseable offers is
\* recorded as missing, reported in one aggregate warning (count and names),
\* appears in no store's entry list of the result, and does not abort the
\* run: the remaining items with offers are still assigned.
\* ------------------------------------------------------------------------
\* the item names whose fetch yielded no offers
NoOfferItems ==
    {price_cache[i].key : i \in {j \in 1..Len(price_cache) : price_cache[j].val = <<>>}}

\* the item names whose fetch yielded offers
OfferedItems ==
    {price_cache[i].key : i \in {j \in 1..Len(price_cache) : price_cache[j].val # <<>>}}

\* the item names in the rows of the result
ResultItems ==
    UNION {{results[i].val[j][1] : j \in 1..Len(results[i].val)} : i \in 1..Len(results)}

\* the warnings about missing items in the log
MissingWarnings == {i \in 1..Len(log) : log[i].kind = "missing"}

\* the elements of a sequence
Range(xs) == {xs[i] : i \in 1..Len(xs)}

C10_MissingItemsReported ==
    (pc = "done" /\ NoOfferItems # {})
        => /\ Range(missing_items) = NoOfferItems
           /\ Cardinality(MissingWarnings) = 1
           /\ \A w \in MissingWarnings :
                  /\ log[w].args[1] = Cardinality(NoOfferItems)
                  /\ Range(log[w].args[2]) = NoOfferItems
                  /\ Len(log[w].args[2]) = Cardinality(NoOfferItems)
           /\ ResultItems \cap NoOfferItems = {}
           /\ ResultItems = OfferedItems

\* one item without offers, one with: the result holds the second only
C10_Witness ==
    /\ pc = "done"
    /\ Cardinality(NoOfferItems) = 1
    /\ Cardinality(OfferedItems) = 1
    /\ ResultItems = OfferedItems

\* ------------------------------------------------------------------------
\* C11: when the item list is empty, or no item has any offer, run()
\* returns an empty result and has called neither _assign_items (so neither
\* assigner), nor the formatter, nor the comparison-store augmentation.
\* ------------------------------------------------------------------------
\* the functions run() has called
Callees == {calls[i].callee : i \in 1..Len(calls)}

\* run() has returned on an empty working set
EmptyRun == pc = "done" /\ item_options = <<>>

C11_EmptyRunReturnsEmpty ==
    EmptyRun
        => /\ results = <<>>
           /\ Callees \cap {"_assign_items", "_format_results",
                             "_build_shufersal_comparison"} = {}
           /\ assignments = <<>>
           /\ total_cost = None
           /\ last_total_cost = None
           /\ examined = 0
           /\ log[Len(log)].kind = IF items = <<>> THEN "no_items"
                                    ELSE "no_price_data"

\* two items were fetched, neither has an offer, the comparison is enabled
C11_Witness ==
    /\ EmptyRun
    /\ Len(items) = 2
    /\ Len(missing_items) = 2
    /\ compare_to_shfsl

\* ------------------------------------------------------------------------
\* C12: the comparison-store row is added only when every item that has a
\* comparison-store offer is attributed to one and the same store label:
\* every entry of the added row comes from an offer whose label is the
\* row's key, and matched items of different labels add no row.
\* ------------------------------------------------------------------------
\* the offers of item k whose store name holds the marker
MarkerOffers(k) ==
    {j \in 1..Len(OffersOf(k)) : IsSubstring(SHUFERSAL_LABEL, OffersOf(k)[j].name)}

\* the items that have a comparison-store offer
MatchedItems == {k \in WorkingItems : MarkerOffers(k) # {}}

\* the comparison-store offer of a matched item: the first one in its list
MatchOf(k) == OffersOf(k)[Least(MarkerOffers(k))]

\* the store labels the matched items are attributed to
MatchedLabels == {OptionLabel(MatchOf(k)) : k \in MatchedItems}

\* run() has returned with a comparison row, which is the last row
RowAdded == pc = "done" /\ Len(results) = Len(assignments) + 1

AddedRow == results[Len(results)]

C12_ComparisonRowFromOneLabel ==
    RowAdded
        => /\ Cardinality(MatchedLabels) = 1
           /\ \A i \in 1..Len(AddedRow.val) :
                  \E k \in MatchedItems :
                      /\ AddedRow.val[i][1] = item_options[k][1]
                      /\ AddedRow.val[i][2] = MatchOf(k).price_str
                      /\ OptionLabel(MatchOf(k)) = AddedRow.key

\* ------------------------------------------------------------------------
\* C13: the comparison-store augmentation of run() adds at most one row and
\* leaves every row of the formatted assignment unchanged (same keys, same
\* entries, same order); when the comparison store's label is already a key
\* of the formatted result nothing is added or overwritten; when
\* compare_to_shfsl is false the result is the formatter's output.
\* ------------------------------------------------------------------------
\* the label the comparison row would get: that of the last matched item
ComparisonLabel == OptionLabel(MatchOf(CHOOSE k \in MatchedItems :
                                          \A m \in MatchedItems : m <= k))

\* the comparison store's label is a key of the formatted result
LabelAlreadyKey == MatchedItems # {} /\ ComparisonLabel \in StoresUsed(results)

C13_ComparisonAddsAtMostOneRow ==
    [][pc = "compare"
          => /\ Len(results') \in {Len(results), Len(results) + 1}
             /\ \A i \in 1..Len(results) : results'[i] = results[i]
             /\ Len(results') = Len(results) + 1
                    => results'[Len(results')].key \notin StoresUsed(results)
             /\ LabelAlreadyKey => results' = results
             /\ ~compare_to_shfsl => results' = results
             /\ assignments' = assignments]_vars

\* the comparison was enabled, two items have a comparison-store offer, and
\* the comparison store's label was a key already: two rows before and after
C13_Witness ==
    /\ pc = "done"
    /\ compare_to_shfsl
    /\ Cardinality(MatchedItems) = 2
    /\ ComparisonLabel \in StoresUsed(assignments)
    /\ Len(results) = 2
    /\ results = _format_results(assignments)

\* ------------------------------------------------------------------------
\* C14: within one run the price fetches are made one at a time, every
\* fetch is immediately preceded by one delay, and each distinct item name
\* is fetched at most once however often it occurs in the list, also when
\* its fetch returned no offers; the cache is not carried over to the next
\* run, which fetches each of its names again.
\* ------------------------------------------------------------------------
\* the positions of the call trace where name is fetched
FetchesOf(name) ==
    {i \in 1..Len(calls) : calls[i].callee = "fetch" /\ calls[i].arg = name}

\* the positions of the call trace that are delays
Delays == {i \in 1..Len(calls) : calls[i].callee = "sleep"}

\* the items the loop of _collect_prices has dealt with in this run
ItemsDone == {items[k] : k \in 1..(idx - 1)}

C14_OneDelayedFetchPerName ==
    /\ \A i \in 1..Len(calls) :
           calls[i].callee = "fetch" => i > 1 /\ calls[i - 1].callee = "sleep"
    /\ \A i \in Delays : i < Len(calls) /\ calls[i + 1].callee = "fetch"
    /\ \A name \in ItemsDone : Cardinality(FetchesOf(name)) = 1
    /\ FetchedNames = ItemsDone
    /\ \A name \in ItemsDone : HasKey(price_cache, name)

\* the second run has met the same name twice, both times without offers,
\* and has fetched it once, although the run before had fetched it too
C14_Witness ==
    /\ run = 2
    /\ pc = "done"
    /\ items = <<milk, milk>>
    /\ missing_items = <<milk, milk>>
    /\ milk \in fetched_before
    /\ Cardinality(FetchesOf(milk)) = 1
    /\ Cardinality(Delays) = 1

\* ------------------------------------------------------------------------
\* C15: for every list of raw offer rows _fetch_store_prices returns the
\* surviving offers sorted ascending by price_value, offers of equal price
\* in input order, and running it again (on the same rows, or on the rows
\* of its own result) yields the identical sequence.
\* ------------------------------------------------------------------------
\* the normalizer has returned
Normalized == pc \in {"fetched", "refetched"}

\* the rows of the response
RawRows == Val(response)

\* the numeric price of a row: the one supplied, else the parsed price text
RowPrice(e) == IF IsNone(e.price_value) THEN parse_price(Val(e.price)) ELSE e.price_value

\* a row survives: it has a store name, a price text and a numeric price
Survives(e) ==
    /\ ~IsNone(e.store) /\ Val(e.store) # <<>>
    /\ ~IsNone(e.price) /\ Val(e.price) # <<>>
    /\ ~IsNone(RowPrice(e))

Survivors == {i \in 1..Len(RawRows) : Survives(RawRows[i])}

\* the offer a surviving row becomes
OfferOfRow(e) == StoreOption(Val(e.store), e.location, Val(RowPrice(e)), Val(e.price))

C15_NormalizerSortsStably ==
    Normalized
        => /\ Len(normalized) = Cardinality(Survivors)
           /\ \E f \in [1..Len(normalized) -> Survivors] :
                 /\ \A i \in 1..Len(normalized) :
                        normalized[i] = OfferOfRow(RawRows[f[i]])
                 /\ \A i, j \in 1..Len(normalized) :
                        i < j => \/ normalized[i].price_value < normalized[j].price_value
                                 \/ /\ normalized[i].price_value = normalized[j].price_value
                                    /\ f[i] < f[j]
           /\ normalized = _fetch_store_prices(response)
           /\ pc = "refetched" => response = AsResponse(normalized)

\* two offers of equal price from two stores: "B" first, as in the rows
C15_Witness ==
    /\ pc = "fetched"
    /\ Len(RawRows) = 2
    /\ Len(normalized) = 2
    /\ normalized[1].price_value = normalized[2].price_value
    /\ normalized[1].name = <<"B">>
    /\ normalized[2].name = <<"A">>

\* ------------------------------------------------------------------------
\* C16: pruning preserves the result: with non-negative prices the
\* constrained search, which abandons a combination as soon as its running
\* cost reaches the best total so far, returns the same assignment and the
\* same total cost as the same enumeration without pruning.
\* ------------------------------------------------------------------------
\* the body of the loop over the combinations when no combination is
\* abandoned for its cost: the loop over the items never sees a best total
UnprunedEvalCombo(opts, combo, best) ==
    CHOOSE b2 \in {ComboKeep(r, best) :
                     r \in {EvalComboFrom(
                                opts, 1, combo_set,
                                [feasible |-> TRUE, assignment |-> <<>>,
                                 total_cost |-> 0],
                                None) :
                            combo_set \in {{combo[i] : i \in 1..Len(combo)}}}} : TRUE

\* the same loops over the combinations and the sizes around it
RECURSIVE UnprunedCombos(_, _, _, _, _, _)
UnprunedCombos(opts, store_labels, combo, start, size, best) ==
    IF Len(combo) = size THEN UnprunedEvalCombo(opts, combo, best)
    ELSE IF Len(store_labels) - start + 1 < size - Len(combo) THEN best
    ELSE CHOOSE r \in {UnprunedCombos(opts, store_labels, combo,
                                      start + 1, size, taken) :
                         taken \in {UnprunedCombos(opts, store_labels,
                                                   Append(combo, store_labels[start]),
                                                   start + 1, size, best)}} : TRUE

RECURSIVE UnprunedSizes(_, _, _, _, _)
UnprunedSizes(opts, store_labels, size, max_size, best) ==
    IF size > max_size THEN best
    ELSE CHOOSE r \in {UnprunedSizes(opts, store_labels, size + 1, max_size, b) :
                         b \in {UnprunedCombos(opts, store_labels, <<>>, 1,
                                               size, best)}} : TRUE

\* what the enumeration without pruning ends with on the working set
UnprunedBest ==
    UnprunedSizes(item_options, StoreLabels(item_options), 1, Val(max_stores),
                  [best_assignment |-> None, best_total |-> None, examined |-> 0])

\* every price of the working set is non-negative
NonNegativePrices ==
    \A k \in WorkingItems : \A j \in 1..Len(OffersOf(k)) : OffersOf(k)[j].price_value >= 0

C16_PruningPreservesResult ==
    (Assigned /\ LimitBinds /\ NonNegativePrices)
        => \A u \in {UnprunedBest} :
               /\ IsNone(u.best_assignment) <=> LimitWarningLogged
               /\ ~IsNone(u.best_assignment)
                      => /\ assignments = Val(u.best_assignment)
                         /\ total_cost = u.best_total
               /\ examined = u.examined

\* a search in which a combination was abandoned: store "B" alone covers
\* every item but costs more than store "A" alone, which is examined first
C16_Witness ==
    /\ Assigned /\ LimitBinds
    /\ max_stores = Some(1)
    /\ Covers({<<"A">>})
    /\ Covers({<<"B">>})
    /\ CostIn({<<"A">>}) < CostIn({<<"B">>})
    /\ Val(total_cost) = CostIn({<<"A">>})
    /\ examined = 2

\* ------------------------------------------------------------------------
\* C17: when several feasible store subsets of size <= K achieve the
\* minimum total cost, the constrained search returns the assignment of the
\* first of them in enumeration order: ascending subset size, then
\* lexicographic order of the sorted store labels; a later subset of equal
\* cost never replaces it.
\* ------------------------------------------------------------------------
\* a is before b in lexicographic order, for label sequences of one length
SeqLexLess(a, b) ==
    \E i \in 1..Len(a) :
        /\ StrLess(a[i], b[i])
        /\ \A j \in 1..(i - 1) : a[j] = b[j]

\* S is enumerated before T
EnumeratedBefore(S, T) ==
    \/ Cardinality(S) < Cardinality(T)
    \/ /\ Cardinality(S) = Cardinality(T)
       /\ SeqLexLess(SortedStrs(S), SortedStrs(T))

\* the feasible subsets of least cost
MinSubsets(K) ==
    CHOOSE r \in {{p[1] : p \in {q \in costs : \A t \in costs : q[2] <= t[2]}} :
                    costs \in {{<<S, CostIn(S)>> : S \in FeasibleSubsets(K)}}} : TRUE

\* the one of them that is enumerated first
FirstMinSubset(K) ==
    CHOOSE r \in {CHOOSE S \in M : \A T \in M \ {S} : EnumeratedBefore(S, T) :
                    M \in {MinSubsets(K)}} : TRUE

\* the offer of item k that a combination S buys: the first of its offers
\* in S that has the least price among them
ChoiceIn(k, S) ==
    OffersOf(k)[Least({j \in 1..Len(OffersOf(k)) :
                          /\ OptionLabel(OffersOf(k)[j]) \in S
                          /\ OffersOf(k)[j].price_value = Least(PricesIn(k, S))})]

C17_FirstMinimumSubsetWins ==
    (Assigned /\ LimitBinds /\ FeasibleSubsets(Val(max_stores)) # {})
        => \A S \in {FirstMinSubset(Val(max_stores))} :
               /\ StoresUsed(assignments) \subseteq S
               /\ total_cost = Some(CostIn(S))
               /\ EntryCount(assignments) = Len(item_options)
               /\ \A k \in WorkingItems :
                      InEntries(AssignmentEntry(item_options[k][1], ChoiceIn(k, S)),
                                EntriesAt(assignments, OptionLabel(ChoiceIn(k, S))))

\* stores "A" and "B" alone both cover every item at the least cost: the
\* search returns store "A"
C17_Witness ==
    /\ Assigned /\ LimitBinds
    /\ max_stores = Some(1)
    /\ {{<<"A">>}, {<<"B">>}} \subseteq MinSubsets(1)
    /\ StoresUsed(assignments) = {<<"A">>}

\* ------------------------------------------------------------------------
\* C18: the normalized offer list of an item holds at most one offer per
\* derived store label (store name merged with the optional location):
\* rows that map to the same store label are deduplicated.
\* ------------------------------------------------------------------------
C18_OneOfferPerLabel ==
    \A k \in WorkingItems :
        \A i, j \in 1..Len(OffersOf(k)) :
            i # j => OptionLabel(OffersOf(k)[i]) # OptionLabel(OffersOf(k)[j])

FallbackWarnings ==
    {i \in 1..Len(log) :
        log[i].kind \in {"too_many_combinations", "store_limit_fallback"}}

C20_CeilingWarningNamesBoth ==
    (Assigned /\ LimitBelowStores)
        => \A count \in {SubsetCount(Cardinality(CandidateStores), Val(max_stores))} :
               count > 100000
                   => /\ Cardinality(FallbackWarnings) = 1
                      /\ \A i \in FallbackWarnings :
                             {100000, count} \subseteq Range(log[i].args)

\* ------------------------------------------------------------------------
\* main() of src/main.py
\* ------------------------------------------------------------------------
\* the number of formats given with --formats
MaxFormats == 2

\* the parameters of PriceOptimizer.__init__, besides self
InitParameters == {"city", "city_id", "delay", "compare_to_shfsl", "max_stores"}

\* the keyword arguments main() calls PriceOptimizer with
MainKeywords ==
    {"delay", "city", "city_id", "compare_to_shfsl", "max_stores",
     "use_found_names", "add_brand", "add_store_location"}

\* Python binds a call's keywords to parameters; a keyword that names no
\* parameter raises TypeError
BindsKeywords(parameters, keywords) == keywords \subseteq parameters

\* the export function main() calls for a format
ExportCall(fmt) ==
    CASE fmt = "yaml" -> <<"export_yaml">>
      [] fmt = "csv" -> <<"export_csv">>
      [] fmt = "txt" -> <<"export_txt">>
      [] OTHER -> <<>>

\* for fmt in args.formats, from format k on
RECURSIVE ExportCallsFrom(_, _)
ExportCallsFrom(formats, k) ==
    IF k > Len(formats) THEN <<>>
    ELSE ExportCall(formats[k]) \o ExportCallsFrom(formats, k + 1)

\* the command lines: --formats takes one or more of yaml, csv, txt
MainInputs ==
    {[city_found |-> c, formats |-> f, notify |-> n, compare_to_shfsl |-> s] :
        c \in BOOLEAN, n \in BOOLEAN, s \in BOOLEAN,
        f \in UNION {[1..k -> {"yaml", "csv", "txt"}] : k \in 1..MaxFormats}}

InitMain ==
    /\ OptimizerIdle
    /\ RequestIdle /\ LookupIdle /\ ChunkIdle
    /\ main_args \in {Some(a) : a \in MainInputs}
    /\ main_pc = "start"
    /\ main_calls = <<>>

\* main(), from the city lookup to its end; the calls it completes are
\* recorded in order
Main ==
    /\ main_pc = "start"
    /\ \E args \in {Val(main_args)} :
         IF ~args.city_found
         THEN /\ main_calls' = <<"logger.error">>
              /\ main_pc' = "returned"
         ELSE IF ~BindsKeywords(InitParameters, MainKeywords)
         THEN /\ main_calls' = <<>>
              /\ main_pc' = "TypeError"
         ELSE /\ main_calls' = <<"PriceOptimizer", "run">>
                                   \o ExportCallsFrom(args.formats, 1)
                                   \o (IF args.notify
                                       THEN <<"send_telegram_message">> ELSE <<>>)
              /\ main_pc' = "returned"
    /\ UNCHANGED <<main_args, optimizer_vars, request_vars, lookup_vars, chunk_vars>>

NextMain == Main

SpecMain == InitMain /\ [][NextMain]_vars

\* ------------------------------------------------------------------------
\* C21: when the city is found, main() constructs the optimizer, calls
\* run() exactly once, then exports the result once per requested format
\* in the order given, and then sends the notification if and only if
\* --notify was given; when the city is not found, main() logs an error
\* and returns without running the optimizer, exporting or notifying.
\* ------------------------------------------------------------------------
\* main() has ended
MainEnded == main_pc \in {"returned", "TypeError"}

\* the export calls the formats ask for, one per format, in their order
ExportsAsked(formats) ==
    [k \in 1..Len(formats) |->
        IF formats[k] = "yaml" THEN "export_yaml"
        ELSE IF formats[k] = "csv" THEN "export_csv" ELSE "export_txt"]

C21_MainCallsInOrder ==
    MainEnded
        => \A args \in {Val(main_args)} :
               /\ main_pc = "returned"
               /\ args.city_found
                      => main_calls = <<"PriceOptimizer", "run">>
                                          \o ExportsAsked(args.formats)
                                          \o (IF args.notify
                                              THEN <<"send_telegram_message">>
                                              ELSE <<>>)
               /\ ~args.city_found => main_calls = <<"logger.error">>

\* ------------------------------------------------------------------------
\* BaseScraper._request
\* ------------------------------------------------------------------------
\* the largest retries value a scraper is configured with
MaxRetries == 4

\* what one attempt ends with: a response that passes raise_for_status, an
\* HTTPError from raise_for_status, or another RequestException
AttemptOutcomes == {"ok", "HTTPError", "ConnectionError"}

RequestEvent(event, arg) == [event |-> event, arg |-> arg]

\* a scraper constructed with retries and backoff, at the call of _request
InitRequest ==
    /\ OptimizerIdle
    /\ MainIdle /\ LookupIdle /\ ChunkIdle
    /\ retries \in 0..MaxRetries
    /\ backoff \in {1, 2}
    /\ attempt = 1
    /\ request_pc = "loop"
    /\ request_trace = <<>>

\* one iteration of for attempt in range(1, self.retries + 1)
RequestAttempt ==
    /\ request_pc = "loop"
    /\ attempt <= retries
    /\ \E outcome \in AttemptOutcomes :
         IF outcome = "ok"
         THEN /\ request_trace' = Append(request_trace, RequestEvent("request", outcome))
              /\ request_pc' = "returned"
              /\ UNCHANGED attempt
         ELSE IF attempt = retries
         THEN /\ request_trace' = Append(request_trace, RequestEvent("request", outcome))
              /\ request_pc' = "raised"
              /\ UNCHANGED attempt
         ELSE /\ request_trace' = request_trace
                                      \o <<RequestEvent("request", outcome),
                                           RequestEvent("sleep", backoff * attempt)>>
              /\ attempt' = attempt + 1
              /\ UNCHANGED request_pc
    /\ UNCHANGED <<retries, backoff, optimizer_vars, main_vars, lookup_vars, chunk_vars>>

\* the loop is over without a return or a raise: the function ends and
\* returns None
RequestFallThrough ==
    /\ request_pc = "loop"
    /\ attempt > retries
    /\ request_pc' = "fell_through"
    /\ UNCHANGED <<retries, backoff, attempt, request_trace, optimizer_vars,
                   main_vars, lookup_vars, chunk_vars>>

NextRequest ==
    \/ RequestAttempt
    \/ RequestFallThrough

SpecRequest == InitRequest /\ [][NextRequest]_vars

\* ------------------------------------------------------------------------
\* C22: for every configured retries value _request ends either by
\* returning a successful response or by raising the request error: it
\* makes at most retries attempts, stops at the first success, waits
\* between failed attempts, raises after the last failed attempt, and never
\* returns without a successful response.
\* ------------------------------------------------------------------------
\* the positions of the trace that are requests, and the failed ones
Requests == {i \in 1..Len(request_trace) : request_trace[i].event = "request"}

FailedRequests == {i \in Requests : request_trace[i].arg # "ok"}

C22_RequestReturnsOrRaises ==
    /\ Cardinality(Requests) <= retries
    /\ \A i \in Requests \ FailedRequests : i = Len(request_trace)
    /\ \A i \in FailedRequests :
           i < Len(request_trace) => request_trace[i + 1].event = "sleep"
    /\ request_pc # "loop"
           => /\ request_pc \in {"returned", "raised"}
              /\ request_pc = "returned"
                     => /\ request_trace # <<>>
                        /\ request_trace[Len(request_trace)] = RequestEvent("request", "ok")
              /\ request_pc = "raised"
                     => /\ Cardinality(FailedRequests) = retries
                        /\ Requests = FailedRequests

\* ------------------------------------------------------------------------
\* SupermarketScraper.find_barcode and the start of get_prices
\* ------------------------------------------------------------------------
\* an entry of the autocompletion answer: a plain string, or a dict with
\* the keys the code reads (a missing key is None)
StrEntry(value) == [kind |-> "str", value |-> value]

DictEntry(id, value, label, manufacturer_and_barcode) ==
    [kind |-> "dict", id |-> id, value |-> value, label |-> label,
     name |-> None, text |-> None,
     manufacturer_and_barcode |-> manufacturer_and_barcode]

\* x or y, for optional strings: x unless it is None or empty
OrElse(x, y) == IF IsNone(x) \/ Val(x) = <<>> THEN y ELSE x

\* the manufacturer of an entry: the stripped text when it is not empty;
\* the texts of the model hold neither the prefix nor a barcode marker, so
\* nothing is cut off
ManufacturerOf(entry) ==
    IF IsNone(entry.manufacturer_and_barcode) THEN None
    ELSE IF Strip(Val(entry.manufacturer_and_barcode)) = <<>> THEN None
    ELSE Some(Strip(Val(entry.manufacturer_and_barcode)))

\* find_barcode, on the JSON of the autocompletion answer: None or the
\* tuple returned
find_barcode(data) ==
    IF data = <<>> THEN None
    ELSE IF data[1].kind = "str" THEN Some(<<Some(data[1].value), None>>)
    ELSE IF IsNone(data[1].id) \/ Val(data[1].id) = <<>> THEN None
    ELSE Some(<<data[1].id,
                OrElse(data[1].value,
                       OrElse(data[1].label,
                              OrElse(data[1].name, data[1].text))),
                ManufacturerOf(data[1])>>)

\* the autocompletion answers: empty, a plain string first, a dict first
\* with and without an id, with and without names
AutocompleteAnswers ==
    {<<>>,
     <<StrEntry(<<"1">>)>>,
     <<StrEntry(<<"1">>), DictEntry(Some(<<"2">>), None, None, None)>>,
     <<DictEntry(None, Some(milk), None, None)>>,
     <<DictEntry(Some(<<>>), None, None, None)>>,
     <<DictEntry(Some(<<"1">>), None, None, None)>>,
     <<DictEntry(Some(<<"1">>), Some(milk), None, Some(<<" ", "A">>))>>,
     <<DictEntry(Some(<<"1">>), Some(<<>>), Some(bread), Some(<<" ">>))>>}

InitLookup ==
    /\ OptimizerIdle
    /\ MainIdle /\ RequestIdle /\ ChunkIdle
    /\ autocomplete \in AutocompleteAnswers
    /\ site_table \in SmallTables
    /\ lookup_pc = "call"
    /\ prices_out = None

\* get_prices(item_name): the lookup, the unpacking of its tuple into
\* barcode, product_name and manufacturer, and the price table
GetPrices ==
    /\ lookup_pc = "call"
    /\ \E lookup \in {find_barcode(autocomplete)} :
         IF IsNone(lookup)
         THEN /\ prices_out' = None
              /\ lookup_pc' = "returned"
         ELSE IF Len(Val(lookup)) # 3
         THEN /\ lookup_pc' = "ValueError"
              /\ UNCHANGED prices_out
         ELSE /\ prices_out' = get_prices(site_table)
              /\ lookup_pc' = "returned"
    /\ UNCHANGED <<autocomplete, site_table, optimizer_vars, main_vars,
                   request_vars, chunk_vars>>

NextLookup == GetPrices

SpecLookup == InitLookup /\ [][NextLookup]_vars

\* ------------------------------------------------------------------------
\* C23: for every shape of autocomplete response (empty, first entry a
\* plain string, first entry a dict with or without an id) get_prices
\* returns either None or a result dict: the tuple find_barcode returns
\* always has the arity get_prices unpacks, so a found barcode never causes
\* an unpacking failure.
\* ------------------------------------------------------------------------
C23_LookupArityMatches ==
    /\ \A lookup \in {find_barcode(autocomplete)} :
           ~IsNone(lookup) => Len(Val(lookup)) = 3
    /\ lookup_pc \in {"call", "returned"}
    /\ lookup_pc = "returned"
           => \/ prices_out = None
              \/ /\ Val(prices_out) # <<>>
                 /\ ~IsNone(find_barcode(autocomplete))

\* ------------------------------------------------------------------------
\* notifier._chunk_message
\* ------------------------------------------------------------------------
MaxText == 5

MaxLimit == 3

NewLine == "\n"

\* str.splitlines() from position i on, the line begun being `line`: a
\* line ends at each newline, and a text that ends with a newline has
\* no empty last line
RECURSIVE SplitLinesFrom(_, _, _)
SplitLinesFrom(s, i, line) ==
    IF i > Len(s) THEN (IF line = <<>> THEN <<>> ELSE <<line>>)
    ELSE IF s[i] = NewLine THEN <<line>> \o SplitLinesFrom(s, i + 1, <<>>)
    ELSE SplitLinesFrom(s, i + 1, Append(line, s[i]))

SplitLines(s) == SplitLinesFrom(s, 1, <<>>)

\* s.rstrip("\n"), looking at the first n characters
RECURSIVE RStripNewLinesTo(_, _)
RStripNewLinesTo(s, n) ==
    IF n = 0 THEN <<>>
    ELSE IF s[n] = NewLine THEN RStripNewLinesTo(s, n - 1)
    ELSE SubSeq(s, 1, n)

RStripNewLines(s) == RStripNewLinesTo(s, Len(s))

\* "".join(strings), from position i on
RECURSIVE JoinFrom(_, _)
JoinFrom(strings, i) ==
    IF i > Len(strings) THEN <<>>
    ELSE strings[i] \o JoinFrom(strings, i + 1)

Join(strings) == JoinFrom(strings, 1)

\* one pass of the loop of _chunk_message over a line; st holds the
\* locals parts, current and current_len
ChunkLine(st, line, lim) ==
    IF st.current_len + Len(line) + 1 > lim
    THEN [parts |-> Append(st.parts, RStripNewLines(Join(st.current))),
          current |-> <<Append(line, NewLine)>>,
          current_len |-> Len(line) + 1]
    ELSE [parts |-> st.parts,
          current |-> Append(st.current, Append(line, NewLine)),
          current_len |-> st.current_len + Len(line) + 1]

\* the loop over lines[i..]
RECURSIVE ChunkLinesFrom(_, _, _, _)
ChunkLinesFrom(lines, i, st, lim) ==
    IF i > Len(lines) THEN st
    ELSE CHOOSE r \in {ChunkLinesFrom(lines, i + 1, st2, lim) :
                         st2 \in {ChunkLine(st, lines[i], lim)}} : TRUE

\* _chunk_message(text, limit)
_chunk_message(t, lim) ==
    IF Len(t) <= lim THEN <<t>>
    ELSE LET st == CHOOSE r \in {ChunkLinesFrom(lines, 1,
                                      [parts |-> <<>>, current |-> <<>>,
                                       current_len |-> 0], lim) :
                                  lines \in {SplitLines(t)}} : TRUE
         IN  IF st.current # <<>>
             THEN Append(st.parts, RStripNewLines(Join(st.current)))
             ELSE st.parts

\* the texts of letters and newlines of length n
TextsOfLength(n) == [1..n -> {"a", NewLine}]

Texts == UNION {TextsOfLength(n) : n \in 0..MaxText}

InitChunk ==
    /\ OptimizerIdle
    /\ MainIdle /\ RequestIdle /\ LookupIdle
    /\ text \in Texts
    /\ limit \in 1..MaxLimit
    /\ parts = <<>>
    /\ chunk_pc = "call"

ChunkMessage ==
    /\ chunk_pc = "call"
    /\ parts' = _chunk_message(text, limit)
    /\ chunk_pc' = "returned"
    /\ UNCHANGED <<text, limit, optimizer_vars, main_vars, request_vars,
                   lookup_vars>>

NextChunk == ChunkMessage

SpecChunk == InitChunk /\ [][NextChunk]_vars

\* ------------------------------------------------------------------------
\* C24: for every text and limit, every part returned by
\* _chunk_message(text, limit) has length at most limit, and no part is
\* empty when the text is non-empty.
\* ------------------------------------------------------------------------
C24_PartsWithinLimit ==
    chunk_pc = "returned"
        => \A i \in 1..Len(parts) :
              /\ Len(parts[i]) <= limit
              /\ text # <<>> => parts[i] # <<>>

\* ------------------------------------------------------------------------
\* C25: with max_stores = K set, the assignment _assign_items returns is
\* always either an assignment whose stores all lie in one enumerated
\* subset of size at most K (the cheapest prices within that subset), or
\* exactly the unconstrained best-per-item assignment; the latter in the
\* cases K >= n, combination count over the ceiling, and no feasible
\* subset.
\* ------------------------------------------------------------------------
\* K < n, the combination count is within the ceiling and some subset of
\* size <= K offers every item
SearchSucceeds ==
    /\ LimitBelowStores
    /\ SubsetCount(Cardinality(CandidateStores), Val(max_stores)) <= 100000
    /\ FeasibleSubsets(Val(max_stores)) # {}

C25_SubsetOrUnconstrained ==
    (Assigned /\ ~IsNone(max_stores))
        => /\ \/ \E S \in SubsetsUpTo(Val(max_stores)) :
                    StoresUsed(assignments) \subseteq S
              \/ assignments = _assign_unlimited(item_options).assignments
           /\ SearchSucceeds
                 => \E S \in FeasibleSubsets(Val(max_stores)) :
                        /\ StoresUsed(assignments) \subseteq S
                        /\ total_cost = Some(CostIn(S))
           /\ ~SearchSucceeds
                 => /\ assignments = _assign_unlimited(item_options).assignments
                    /\ total_cost = Some(_assign_unlimited(item_options).total_cost)

\* one store of two is allowed, and the assignment within it is not the
\* unconstrained one
C25_Witness ==
    /\ Assigned
    /\ max_stores = Some(1)
    /\ Cardinality(CandidateStores) = 2
    /\ SearchSucceeds
    /\ Cardinality(StoresUsed(assignments)) = 1
    /\ assignments # _assign_unlimited(item_options).assignments

\* ------------------------------------------------------------------------
\* C26: across any sequence of run() calls on one optimizer, a run that
\* reaches assignment sets last_total_cost to the sum of the price_values
\* of the assignment it returns (the comparison row excluded), and a run
\* that returns early with an empty result leaves last_total_cost as the
\* previous run left it.
\* ------------------------------------------------------------------------
\* the sum of the price_values of the entries of the first n stores of an
\* assignment
RECURSIVE AssignmentTotalTo(_, _)
AssignmentTotalTo(a, n) ==
    IF n = 0 THEN 0 ELSE AssignmentTotalTo(a, n - 1) + EntriesTotal(a[n].val)

AssignmentTotal(a) == AssignmentTotalTo(a, Len(a))

\* the step is an early return of run()
ReturnsEarly == pc \in {"read", "collect"} /\ pc' = "done"

C26_LastTotalCostFollowsRuns ==
    [][/\ pc = "assign"
          => /\ pc' = "format"
             /\ last_total_cost' = Some(AssignmentTotal(assignments'))
       /\ pc # "assign" => last_total_cost' = last_total_cost
       /\ ReturnsEarly => results' = <<>> /\ assignments' = <<>>
       /\ (pc' = "done" /\ ~ReturnsEarly /\ pc # "done")
          => last_total_cost' = Some(AssignmentTotal(assignments'))]_vars

\* the second run returned early: the total of the first run is still
\* there; and the first run's result holds a comparison row
C26_Witness ==
    /\ run = 2
    /\ pc = "done"
    /\ compare_to_shfsl
    /\ results = <<>>
    /\ assignments = <<>>
    /\ last_total_cost # None
    /\ Val(last_total_cost) > 0

====
